---- MODULE Spec2Model ----
(***************************************************************************)
(* Model of the multi-agent emergency assessment pipeline                  *)
(* (src/agents): the shared EmergencyState dictionary, the supervisor      *)
(* (router), the specialist stages with their fallback paths, the graph    *)
(* that drives them and the /assess-multi handler that builds the result.  *)
(*                                                                         *)
(* Encoding of Python values                                               *)
(*   dict            a function whose DOMAIN is the set of keys present    *)
(*   str             a string; Python None in a string slot is NoneStr     *)
(*   JSON scalar     [k |-> kind, v |-> Int] with kind "num", "null" or    *)
(*                   "str" (a non-numeric value); confidences are kept in  *)
(*                   tenths (45 is 4.5), severities and tokens as they are *)
(*   list            a sequence                                            *)
(***************************************************************************)
EXTENDS Integers, Sequences, FiniteSets, TLC

VARIABLES
    pc,        \* position of the request handler / graph driver
    request,   \* the EmergencyRequest being served
    state,     \* the EmergencyState channels of the graph (a dict)
    response,  \* what the handler returned: a result or an HTTP error
    calls,     \* collaborator calls made so far, in order
    unit,      \* node functions invoked directly, outside the graph
    clock,     \* what time.time() returns now
    cancelled, \* the caller has asked for the run to be cancelled
    parked,    \* the run of another session that is under way at the same time
    elapsed    \* what a node measures as time.time() - start_time

vars == <<pc, request, state, response, calls, unit, clock, cancelled, parked, elapsed>>

---------------------------------------------------------------------------
(* Agent names: state.py, class AgentNames *)
SUPERVISOR == "supervisor"
SITUATION == "situation_agent"
GUIDANCE == "guidance_agent"
RESOURCE == "resource_agent"
COMMUNICATION == "communication_agent"
END == "end"

(* Python values *)
NoneStr == "<None>"
Num(n) == [k |-> "num", v |-> n]
NullNum == [k |-> "null", v |-> 0]
StrNum == [k |-> "str", v |-> 0]
IsNum(x) == x.k = "num"

(* dict.get(key, default) *)
Get(d, key, default) == IF key \in DOMAIN d THEN d[key] ELSE default

(* d[key] = value *)
Put(d, key, value) ==
    [x \in DOMAIN d \cup {key} |-> IF x = key THEN value ELSE d[x]]

(* an overlay in which the stored value of a key wins *)
Overlay_StoredWins(upd, d) ==
    [x \in DOMAIN upd \cup DOMAIN d |-> IF x \in DOMAIN d THEN d[x] ELSE upd[x]]

(* dict literal overlaid on stored channel values: keys of upd win *)
Overlay(upd, d) ==
    [x \in DOMAIN upd \cup DOMAIN d |-> IF x \in DOMAIN upd THEN upd[x] ELSE d[x]]

(* an append that never looks whether the name is there *)
AppendOnce_Always(s, name) == Append(s, name)

(* a new name put in front of the list *)
AppendOnce_Prepends(s, name) ==
    IF \E i \in 1..Len(s) : s[i] = name THEN s ELSE <<name>> \o s

(* "if name not in agents_called: agents_called.append(name)" *)
AppendOnce(s, name) ==
    IF \E i \in 1..Len(s) : s[i] = name THEN s ELSE Append(s, name)

Contains(s, name) == \E i \in 1..Len(s) : s[i] = name

---------------------------------------------------------------------------
(* The supervisor (router): supervisor.py, supervisor_agent *)

RESOURCE_TYPES == {"medical", "security", "natural_disaster"}
DEFAULT_SEVERITY == 3
RESOURCE_SEVERITY == 3

(* "severity >= 3" raises TypeError unless severity is a number; it is
   evaluated only in the third branch, before the membership test *)
SupervisorRaises(st) ==
    LET agents_called == Get(st, "agents_called", <<>>)
        severity == Get(st, "severity", Num(DEFAULT_SEVERITY))
    IN  /\ Contains(agents_called, SITUATION)
        /\ Contains(agents_called, GUIDANCE)
        /\ ~Contains(agents_called, RESOURCE)
        /\ ~IsNum(severity)

(* a chain whose third branch always asks for resources *)
RoutingDecision_AlwaysResource(st) ==
    LET agents_called == Get(st, "agents_called", <<>>)
        emergency_type == Get(st, "emergency_type", NoneStr)
        severity == Get(st, "severity", Num(DEFAULT_SEVERITY))
    IN  IF ~Contains(agents_called, SITUATION)
        THEN [next_agent |-> SITUATION,
              reason |-> [text |-> "Initial situation assessment required"]]
        ELSE IF ~Contains(agents_called, GUIDANCE)
        THEN [next_agent |-> GUIDANCE,
              reason |-> [text |-> "Guidance needed for {emergency_type} emergency (severity {severity})",
                          emergency_type |-> emergency_type,
                          severity |-> severity]]
        ELSE IF ~Contains(agents_called, RESOURCE)
        THEN [next_agent |-> RESOURCE,
              reason |-> [text |-> "Resource coordination needed (severity {severity})",
                          severity |-> severity]]
        ELSE [next_agent |-> END,
              reason |-> [text |-> "All specialist agents consulted"]]

(* a chain that hands the finished record back to the supervisor *)
RoutingDecision_RoutesToItself(st) ==
    LET agents_called == Get(st, "agents_called", <<>>)
        emergency_type == Get(st, "emergency_type", NoneStr)
        severity == Get(st, "severity", Num(DEFAULT_SEVERITY))
    IN  IF ~Contains(agents_called, SITUATION)
        THEN [next_agent |-> SITUATION,
              reason |-> [text |-> "Initial situation assessment required"]]
        ELSE IF ~Contains(agents_called, GUIDANCE)
        THEN [next_agent |-> GUIDANCE,
              reason |-> [text |-> "Guidance needed for {emergency_type} emergency (severity {severity})",
                          emergency_type |-> emergency_type,
                          severity |-> severity]]
        ELSE IF ~Contains(agents_called, RESOURCE)
        THEN IF severity.v >= RESOURCE_SEVERITY \/ emergency_type \in RESOURCE_TYPES
             THEN [next_agent |-> RESOURCE,
                   reason |-> [text |-> "Resource coordination needed (severity {severity})",
                               severity |-> severity]]
             ELSE [next_agent |-> END,
                   reason |-> [text |-> "Low severity - resources not needed"]]
        ELSE [next_agent |-> SUPERVISOR,
              reason |-> [text |-> "All specialist agents consulted"]]

(* a router that asks for guidance before the situation is assessed *)
RoutingDecision_GuidanceFirst(st) ==
    LET agents_called == Get(st, "agents_called", <<>>)
        emergency_type == Get(st, "emergency_type", NoneStr)
        severity == Get(st, "severity", Num(DEFAULT_SEVERITY))
    IN  IF ~Contains(agents_called, GUIDANCE)
        THEN [next_agent |-> GUIDANCE,
              reason |-> [text |-> "Guidance needed for {emergency_type} emergency (severity {severity})",
                          emergency_type |-> emergency_type,
                          severity |-> severity]]
        ELSE IF ~Contains(agents_called, SITUATION)
        THEN [next_agent |-> SITUATION,
              reason |-> [text |-> "Initial situation assessment required"]]
        ELSE IF ~Contains(agents_called, RESOURCE)
        THEN IF severity.v >= RESOURCE_SEVERITY \/ emergency_type \in RESOURCE_TYPES
             THEN [next_agent |-> RESOURCE,
                   reason |-> [text |-> "Resource coordination needed (severity {severity})",
                               severity |-> severity]]
             ELSE [next_agent |-> END,
                   reason |-> [text |-> "Low severity - resources not needed"]]
        ELSE [next_agent |-> END,
              reason |-> [text |-> "All specialist agents consulted"]]

(* a router that has the contacts written to once the resources are in *)
RoutingDecision_ThenCommunication(st) ==
    LET agents_called == Get(st, "agents_called", <<>>)
        emergency_type == Get(st, "emergency_type", NoneStr)
        severity == Get(st, "severity", Num(DEFAULT_SEVERITY))
    IN  IF ~Contains(agents_called, SITUATION)
        THEN [next_agent |-> SITUATION,
              reason |-> [text |-> "Initial situation assessment required"]]
        ELSE IF ~Contains(agents_called, GUIDANCE)
        THEN [next_agent |-> GUIDANCE,
              reason |-> [text |-> "Guidance needed for {emergency_type} emergency (severity {severity})",
                          emergency_type |-> emergency_type,
                          severity |-> severity]]
        ELSE IF ~Contains(agents_called, RESOURCE)
        THEN IF severity.v >= RESOURCE_SEVERITY \/ emergency_type \in RESOURCE_TYPES
             THEN [next_agent |-> RESOURCE,
                   reason |-> [text |-> "Resource coordination needed (severity {severity})",
                               severity |-> severity]]
             ELSE [next_agent |-> END,
                   reason |-> [text |-> "Low severity - resources not needed"]]
        ELSE [next_agent |-> COMMUNICATION,
              reason |-> [text |-> "All specialist agents consulted"]]

(* the if / elif chain: the next agent and the reason logged with it *)
RoutingDecision(st) ==
    LET agents_called == Get(st, "agents_called", <<>>)
        emergency_type == Get(st, "emergency_type", NoneStr)
        severity == Get(st, "severity", Num(DEFAULT_SEVERITY))
    IN  IF ~Contains(agents_called, SITUATION)
        THEN [next_agent |-> SITUATION,
              reason |-> [text |-> "Initial situation assessment required"]]
        ELSE IF ~Contains(agents_called, GUIDANCE)
        THEN [next_agent |-> GUIDANCE,
              reason |-> [text |-> "Guidance needed for {emergency_type} emergency (severity {severity})",
                          emergency_type |-> emergency_type,
                          severity |-> severity]]
        ELSE IF ~Contains(agents_called, RESOURCE)
        THEN IF severity.v >= RESOURCE_SEVERITY \/ emergency_type \in RESOURCE_TYPES
             THEN [next_agent |-> RESOURCE,
                   reason |-> [text |-> "Resource coordination needed (severity {severity})",
                               severity |-> severity]]
             ELSE [next_agent |-> END,
                   reason |-> [text |-> "Low severity - resources not needed"]]
        ELSE [next_agent |-> END,
              reason |-> [text |-> "All specialist agents consulted"]]

(* a router that marks the stage it routes to as executed *)
supervisor_agent_MarksTarget(st) ==
    LET agents_called == Get(st, "agents_called", <<>>)
        execution_trace == Get(st, "execution_trace", <<>>)
        d == RoutingDecision(st)
        s1 == Put(st, "next_agent", d.next_agent)
        s2 == IF d.next_agent = END THEN Put(s1, "assessment_complete", TRUE) ELSE s1
        s3 == Put(s2, "execution_trace",
                  Append(execution_trace,
                         [agent |-> SUPERVISOR,
                          action |-> "routing_decision",
                          next_agent |-> d.next_agent,
                          reason |-> d.reason]))
    IN  Put(s3, "agents_called",
            AppendOnce(AppendOnce(agents_called, SUPERVISOR), d.next_agent))

(* a router that keeps only its latest decision in the trace *)
supervisor_agent_KeepsLastDecision(st) ==
    LET agents_called == Get(st, "agents_called", <<>>)
        execution_trace == Get(st, "execution_trace", <<>>)
        d == RoutingDecision(st)
        s1 == Put(st, "next_agent", d.next_agent)
        s2 == IF d.next_agent = END THEN Put(s1, "assessment_complete", TRUE) ELSE s1
        s3 == Put(s2, "execution_trace",
                  Append(SelectSeq(execution_trace, LAMBDA e : e.agent # SUPERVISOR),
                         [agent |-> SUPERVISOR,
                          action |-> "routing_decision",
                          next_agent |-> d.next_agent,
                          reason |-> d.reason]))
    IN  IF ~Contains(agents_called, SUPERVISOR)
        THEN Put(s3, "agents_called", Append(agents_called, SUPERVISOR))
        ELSE s3

(* a router that raises the terminal flag as soon as it asks for resources *)
supervisor_agent_CompletesEarly(st) ==
    LET agents_called == Get(st, "agents_called", <<>>)
        execution_trace == Get(st, "execution_trace", <<>>)
        d == RoutingDecision(st)
        s1 == Put(st, "next_agent", d.next_agent)
        s2 == IF d.next_agent \in {RESOURCE, END}
              THEN Put(s1, "assessment_complete", TRUE)
              ELSE s1
        s3 == Put(s2, "execution_trace",
                  Append(execution_trace,
                         [agent |-> SUPERVISOR,
                          action |-> "routing_decision",
                          next_agent |-> d.next_agent,
                          reason |-> d.reason]))
    IN  IF ~Contains(agents_called, SUPERVISOR)
        THEN Put(s3, "agents_called", Append(agents_called, SUPERVISOR))
        ELSE s3

(* a router that logs the target it found in the slot *)
supervisor_agent_LogsStaleTarget(st) ==
    LET agents_called == Get(st, "agents_called", <<>>)
        execution_trace == Get(st, "execution_trace", <<>>)
        d == RoutingDecision(st)
        s1 == Put(st, "next_agent", d.next_agent)
        s2 == IF d.next_agent = END THEN Put(s1, "assessment_complete", TRUE) ELSE s1
        s3 == Put(s2, "execution_trace",
                  Append(execution_trace,
                         [agent |-> SUPERVISOR,
                          action |-> "routing_decision",
                          next_agent |-> Get(st, "next_agent", d.next_agent),
                          reason |-> d.reason]))
    IN  IF ~Contains(agents_called, SUPERVISOR)
        THEN Put(s3, "agents_called", Append(agents_called, SUPERVISOR))
        ELSE s3

(* a router that stores the severity it defaulted *)
supervisor_agent_StoresDefaults(st) ==
    LET agents_called == Get(st, "agents_called", <<>>)
        execution_trace == Get(st, "execution_trace", <<>>)
        d == RoutingDecision(st)
        s0 == Put(st, "severity", Get(st, "severity", Num(DEFAULT_SEVERITY)))
        s1 == Put(s0, "next_agent", d.next_agent)
        s2 == IF d.next_agent = END THEN Put(s1, "assessment_complete", TRUE) ELSE s1
        s3 == Put(s2, "execution_trace",
                  Append(execution_trace,
                         [agent |-> SUPERVISOR,
                          action |-> "routing_decision",
                          next_agent |-> d.next_agent,
                          reason |-> d.reason]))
    IN  IF ~Contains(agents_called, SUPERVISOR)
        THEN Put(s3, "agents_called", Append(agents_called, SUPERVISOR))
        ELSE s3

(* the whole node, when it does not raise: next_agent, the terminal flag,
   one trace event, and the supervisor's own id added once *)
supervisor_agent(st) ==
    LET agents_called == Get(st, "agents_called", <<>>)
        execution_trace == Get(st, "execution_trace", <<>>)
        d == RoutingDecision(st)
        s1 == Put(st, "next_agent", d.next_agent)
        s2 == IF d.next_agent = END THEN Put(s1, "assessment_complete", TRUE) ELSE s1
        s3 == Put(s2, "execution_trace",
                  Append(execution_trace,
                         [agent |-> SUPERVISOR,
                          action |-> "routing_decision",
                          next_agent |-> d.next_agent,
                          reason |-> d.reason]))
    IN  IF ~Contains(agents_called, SUPERVISOR)
        THEN Put(s3, "agents_called", Append(agents_called, SUPERVISOR))
        ELSE s3

(* route_to_next_agent: the conditional edge reads the slot *)
route_to_next_agent(st) == Get(st, "next_agent", END)

---------------------------------------------------------------------------
(* The text-completion collaborator, as the stages see it.  An outcome is   *)
(*   [kind |-> "call_error"]                 create(...) raised             *)
(*   [kind |-> "bad_json", usage]            content is not JSON            *)
(*   [kind |-> "not_object", usage]          JSON, but not an object        *)
(*   [kind |-> "json", usage, payload]       a JSON object (a dict)         *)
(* usage is Num(total_tokens), or NullNum when completion.usage is None.   *)

DEFAULT_CONFIDENCE == 30
FALLBACK_CONFIDENCE == 10
FALLBACK_SEVERITY == 3

(* "completion.usage.total_tokens if completion.usage else 0" *)
TokensUsed(r) == IF IsNum(r.usage) THEN r.usage.v ELSE 0

(* str(e) of the exception the try block raises on outcome r, "" if none.
   confidence is the value log_confidence_score formats with ":.2f" *)
RaisedInTry(r, confidence) ==
    IF r.kind = "call_error" THEN "Connection error."
    ELSE IF r.kind = "bad_json" THEN "Expecting value: line 1 column 1 (char 0)"
    ELSE IF r.kind = "not_object" THEN "'list' object has no attribute 'get'"
    ELSE IF confidence.k = "null" THEN "unsupported format string passed to NoneType.__format__"
    ELSE IF confidence.k = "str" THEN "Unknown format code 'f' for object of type 'str'"
    ELSE ""

(* a stage that forgets to track its id *)
TrackAndTrace_Untracked(st, name, event) ==
    Put(st, "execution_trace", Append(Get(st, "execution_trace", <<>>), event))

(* a stage that marks the assessment as open again *)
TrackAndTrace_Reopens(st, name, event) ==
    Put(Put(Put(st, "agents_called", AppendOnce(Get(st, "agents_called", <<>>), name)),
            "execution_trace", Append(Get(st, "execution_trace", <<>>), event)),
        "assessment_complete", FALSE)

(* the tail both paths of a stage share: the id tracked once, the event *)
TrackAndTrace(st, name, event) ==
    Put(Put(st, "agents_called", AppendOnce(Get(st, "agents_called", <<>>), name)),
        "execution_trace", Append(Get(st, "execution_trace", <<>>), event))

ErrorEvent(name, error) == [agent |-> name, action |-> "error", error |-> error]

(* '"timestamp": time.time(), "execution_time": execution_time' in the
   dict a node appends: the event the node has just built gets the reading
   of the clock and the time the node measured.  record ranges over the
   one record the node returned, so that it is evaluated once *)
Stamped(st, now, execution_time) ==
    LET Stamp(event) ==
            IF "timestamp" \in DOMAIN event THEN event
            ELSE [x \in DOMAIN event \cup {"timestamp", "execution_time"} |->
                    IF x = "timestamp" THEN now
                    ELSE IF x = "execution_time" THEN execution_time
                    ELSE event[x]]
    IN  CHOOSE out \in {[record EXCEPT !["execution_trace"] =
                            [i \in 1..Len(@) |-> Stamp(@[i])]] : record \in {st}} : TRUE

(* a fallback that takes the emergency for a minor one *)
SituationFallback_LowSeverity(st, error) ==
    LET s1 == Put(st, "emergency_type", "unknown")
        s2 == Put(s1, "severity", Num(2))
        s3 == Put(s2, "immediate_risks", <<"Unable to assess - proceed with caution">>)
        s4 == Put(s3, "situation_confidence", Num(FALLBACK_CONFIDENCE))
    IN  TrackAndTrace(s4, SITUATION, ErrorEvent(SITUATION, error))

(* situation_agent.py, situation_agent: the except block *)
SituationFallback(st, error) ==
    LET s1 == Put(st, "emergency_type", "unknown")
        s2 == Put(s1, "severity", Num(FALLBACK_SEVERITY))
        s3 == Put(s2, "immediate_risks", <<"Unable to assess - proceed with caution">>)
        s4 == Put(s3, "situation_confidence", Num(FALLBACK_CONFIDENCE))
    IN  TrackAndTrace(s4, SITUATION, ErrorEvent(SITUATION, error))

(* an update that also fills in the recommended response *)
SituationUpdate_SetsResponse(st, assessment) ==
    LET s1 == Put(st, "emergency_type", Get(assessment, "emergencyType", "unknown"))
        s2 == Put(s1, "severity", Get(assessment, "severity", Num(DEFAULT_SEVERITY)))
        s3 == Put(s2, "immediate_risks", Get(assessment, "immediateRisks", <<>>))
        s4 == Put(s3, "recommended_response", "contact_help")
    IN  Put(s4, "situation_confidence",
            Get(assessment, "confidence", Num(DEFAULT_CONFIDENCE)))

(* situation_agent.py, situation_agent: "Update state with assessment" *)
SituationUpdate(st, assessment) ==
    LET s1 == Put(st, "emergency_type", Get(assessment, "emergencyType", "unknown"))
        s2 == Put(s1, "severity", Get(assessment, "severity", Num(DEFAULT_SEVERITY)))
        s3 == Put(s2, "immediate_risks", Get(assessment, "immediateRisks", <<>>))
    IN  Put(s3, "situation_confidence",
            Get(assessment, "confidence", Num(DEFAULT_CONFIDENCE)))

(* situation_agent.py, situation_agent: the try block run to its end *)
SituationParsed(st, r) ==
    LET s4 == SituationUpdate(st, r.payload)
        s5 == Put(s4, "total_tokens", Get(st, "total_tokens", 0) + TokensUsed(r))
    IN  TrackAndTrace(s5, SITUATION,
            [agent |-> SITUATION,
             action |-> "situation_assessment",
             emergency_type |-> s4["emergency_type"],
             severity |-> s4["severity"],
             confidence |-> s4["situation_confidence"],
             tokens |-> TokensUsed(r)])

situation_agent(st, r) ==
    LET confidence == IF r.kind = "json"
                      THEN Get(r.payload, "confidence", Num(DEFAULT_CONFIDENCE))
                      ELSE NullNum
        error == RaisedInTry(r, confidence)
    IN  IF error = "" THEN SituationParsed(st, r)
        ELSE IF r.kind = "json" THEN SituationFallback(SituationUpdate(st, r.payload), error)
        ELSE SituationFallback(st, error)

(* a fallback that reports the default confidence instead of the lowest *)
GuidanceFallback_DefaultConfidence(st, error) ==
    LET s1 == Put(st, "recommended_response", "contact_help")
        s2 == Put(s1, "guidance_steps",
                  <<"Stay calm and assess the situation",
                    "Move to a safe location if possible",
                    "Call for help if needed",
                    "Follow any official emergency instructions",
                    "Wait for assistance to arrive">>)
        s3 == Put(s2, "guidance_confidence", Num(DEFAULT_CONFIDENCE))
    IN  TrackAndTrace(s3, GUIDANCE, ErrorEvent(GUIDANCE, error))

(* a fallback that leaves the steps as the try block left them *)
GuidanceFallback_KeepsSteps(st, error) ==
    LET s1 == Put(st, "recommended_response", "contact_help")
        s3 == Put(s1, "guidance_confidence", Num(FALLBACK_CONFIDENCE))
    IN  TrackAndTrace(s3, GUIDANCE, ErrorEvent(GUIDANCE, error))

(* guidance_agent.py, guidance_agent: the except block *)
GuidanceFallback(st, error) ==
    LET s1 == Put(st, "recommended_response", "contact_help")
        s2 == Put(s1, "guidance_steps",
                  <<"Stay calm and assess the situation",
                    "Move to a safe location if possible",
                    "Call for help if needed",
                    "Follow any official emergency instructions",
                    "Wait for assistance to arrive">>)
        s3 == Put(s2, "guidance_confidence", Num(FALLBACK_CONFIDENCE))
    IN  TrackAndTrace(s3, GUIDANCE, ErrorEvent(GUIDANCE, error))

(* an update that takes a confidence the reply leaves out for the lowest *)
GuidanceUpdate_OmittedIsLowest(st, guidance) ==
    LET s1 == Put(st, "recommended_response",
                  Get(guidance, "recommendedResponse", "contact_help"))
        s2 == Put(s1, "guidance_steps", Get(guidance, "guidanceSteps", <<>>))
    IN  Put(s2, "guidance_confidence",
            Get(guidance, "confidence", Num(FALLBACK_CONFIDENCE)))

(* guidance_agent.py, guidance_agent: "Update state with guidance" *)
GuidanceUpdate(st, guidance) ==
    LET s1 == Put(st, "recommended_response",
                  Get(guidance, "recommendedResponse", "contact_help"))
        s2 == Put(s1, "guidance_steps", Get(guidance, "guidanceSteps", <<>>))
    IN  Put(s2, "guidance_confidence",
            Get(guidance, "confidence", Num(DEFAULT_CONFIDENCE)))

(* guidance_agent.py, guidance_agent: the try block run to its end *)
GuidanceParsed(st, r) ==
    LET s3 == GuidanceUpdate(st, r.payload)
        s4 == Put(s3, "total_tokens", Get(st, "total_tokens", 0) + TokensUsed(r))
    IN  TrackAndTrace(s4, GUIDANCE,
            [agent |-> GUIDANCE,
             action |-> "guidance_generation",
             recommended_response |-> s3["recommended_response"],
             steps_count |-> Len(s3["guidance_steps"]),
             confidence |-> s3["guidance_confidence"],
             tokens |-> TokensUsed(r)])

guidance_agent(st, r) ==
    LET confidence == IF r.kind = "json"
                      THEN Get(r.payload, "confidence", Num(DEFAULT_CONFIDENCE))
                      ELSE NullNum
        error == RaisedInTry(r, confidence)
    IN  IF error = "" THEN GuidanceParsed(st, r)
        ELSE IF r.kind = "json" THEN GuidanceFallback(GuidanceUpdate(st, r.payload), error)
        ELSE GuidanceFallback(st, error)

(* a fallback that leaves the stage confidence as it found it *)
ResourceFallback_KeepsConfidence(st, error) ==
    LET s1 == Put(st, "emergency_services", "911")
        s2 == Put(s1, "nearby_hospitals", <<"Call 911 for nearest emergency facility">>)
        s3 == Put(s2, "additional_resources", <<"National Emergency Hotline: 911">>)
    IN  TrackAndTrace(s3, RESOURCE, ErrorEvent(RESOURCE, error))

(* a fallback that also tells the graph to stop *)
ResourceFallback_EndsRun(st, error) ==
    LET s1 == Put(st, "emergency_services", "911")
        s2 == Put(s1, "nearby_hospitals", <<"Call 911 for nearest emergency facility">>)
        s3 == Put(s2, "additional_resources", <<"National Emergency Hotline: 911">>)
        s4 == Put(s3, "resource_confidence", Num(FALLBACK_CONFIDENCE))
    IN  Put(TrackAndTrace(s4, RESOURCE, ErrorEvent(RESOURCE, error)), "next_agent", END)

(* resource_agent.py, resource_agent: the except block *)
ResourceFallback(st, error) ==
    LET s1 == Put(st, "emergency_services", "911")
        s2 == Put(s1, "nearby_hospitals", <<"Call 911 for nearest emergency facility">>)
        s3 == Put(s2, "additional_resources", <<"National Emergency Hotline: 911">>)
        s4 == Put(s3, "resource_confidence", Num(FALLBACK_CONFIDENCE))
    IN  TrackAndTrace(s4, RESOURCE, ErrorEvent(RESOURCE, error))

(* resource_agent.py, resource_agent: "Update state with resources" *)
ResourceUpdate(st, resources) ==
    LET s1 == Put(st, "emergency_services", Get(resources, "emergencyServices", "911"))
        s2 == Put(s1, "nearby_hospitals", Get(resources, "nearbyResources", <<>>))
        s3 == Put(s2, "additional_resources", Get(resources, "additionalResources", <<>>))
    IN  Put(s3, "resource_confidence",
            Get(resources, "confidence", Num(DEFAULT_CONFIDENCE)))

(* resource_agent.py, resource_agent: the try block run to its end *)
ResourceParsed(st, r) ==
    LET s4 == ResourceUpdate(st, r.payload)
        s5 == Put(s4, "total_tokens", Get(st, "total_tokens", 0) + TokensUsed(r))
    IN  TrackAndTrace(s5, RESOURCE,
            [agent |-> RESOURCE,
             action |-> "resource_coordination",
             emergency_services |-> s4["emergency_services"],
             resources_count |-> Len(s4["nearby_hospitals"]),
             confidence |-> s4["resource_confidence"],
             tokens |-> TokensUsed(r)])

resource_agent(st, r) ==
    LET confidence == IF r.kind = "json"
                      THEN Get(r.payload, "confidence", Num(DEFAULT_CONFIDENCE))
                      ELSE NullNum
        error == RaisedInTry(r, confidence)
    IN  IF error = "" THEN ResourceParsed(st, r)
        ELSE IF r.kind = "json" THEN ResourceFallback(ResourceUpdate(st, r.payload), error)
        ELSE ResourceFallback(st, error)

---------------------------------------------------------------------------
(* communication_agent.py.  family_contacts is [k |-> "list", v |-> seq of *)
(* contact dicts], or [k |-> "null", v |-> <<>>] for a value that is not a *)
(* list.                                                                   *)

ListOf(seq) == [k |-> "list", v |-> seq]
NotAList == [k |-> "null", v |-> <<>>]

(* "not isinstance(family_contacts, list) or not family_contacts" *)
NoContacts(st) ==
    LET family_contacts == Get(st, "family_contacts", ListOf(<<>>))
    IN  family_contacts.k # "list" \/ family_contacts.v = <<>>

(* an early return that leaves the messages of an earlier invocation *)
CommunicationNoContacts_KeepsMessages(st) ==
    LET s1 == TrackAndTrace(st, COMMUNICATION,
                  [agent |-> COMMUNICATION, action |-> "no_contacts"])
    IN  Put(s1, "communication_confidence", Num(FALLBACK_CONFIDENCE))

(* the early return taken when there is nobody to write to *)
CommunicationNoContacts(st) ==
    LET s1 == TrackAndTrace(st, COMMUNICATION,
                  [agent |-> COMMUNICATION, action |-> "no_contacts"])
        s2 == Put(s1, "family_messages", <<>>)
    IN  Put(s2, "communication_confidence", Num(FALLBACK_CONFIDENCE))

(* "name or relation", "name or 'Unknown'" *)
OrElse(a, b) == IF a = "" THEN b ELSE a

(* the except block: one template message pair per supplied contact *)
CommunicationFallback(st, error) ==
    LET emergency_type == Get(st, "emergency_type", "unknown")
        severity == Get(st, "severity", Num(DEFAULT_SEVERITY))
        location == Get(st, "location", "Unknown")
        family_contacts == Get(st, "family_contacts", ListOf(<<>>)).v
        fallback_messages ==
            [i \in 1..Len(family_contacts) |->
                LET name == Get(family_contacts[i], "name", "")
                    relation == Get(family_contacts[i], "relation", "family")
                IN  [name |-> OrElse(name, "Unknown"),
                     relation |-> relation,
                     sms |-> [text |-> "There is an emergency ... Type: {emergency_type}, Location: {location}",
                              emergency_type |-> emergency_type,
                              location |-> location],
                     whatsapp |-> [text |-> "Hi {name or relation}, there is an emergency situation ...",
                                   greeting |-> OrElse(name, relation),
                                   emergency_type |-> emergency_type,
                                   severity |-> severity,
                                   location |-> location]]]
        s1 == Put(st, "family_messages", fallback_messages)
        s2 == Put(s1, "communication_confidence", Num(FALLBACK_CONFIDENCE))
    IN  TrackAndTrace(s2, COMMUNICATION, ErrorEvent(COMMUNICATION, error))

(* "Normalize structure": every message gets the four keys *)
NormalizedMessages(data) ==
    LET contacts_messages == Get(data, "contacts", <<>>)
    IN  [i \in 1..Len(contacts_messages) |->
            [name |-> Get(contacts_messages[i], "name", "Unknown"),
             relation |-> Get(contacts_messages[i], "relation", "family"),
             sms |-> Get(contacts_messages[i], "sms", ""),
             whatsapp |-> Get(contacts_messages[i], "whatsapp", "")]]

(* the try block run to its end *)
CommunicationParsed(st, r) ==
    LET normalized_messages == NormalizedMessages(r.payload)
        confidence == Get(r.payload, "overallConfidence", Num(DEFAULT_CONFIDENCE))
        s1 == Put(st, "family_messages", normalized_messages)
        s2 == Put(s1, "communication_confidence", confidence)
        s3 == Put(s2, "total_tokens", Get(st, "total_tokens", 0) + TokensUsed(r))
    IN  TrackAndTrace(s3, COMMUNICATION,
            [agent |-> COMMUNICATION,
             action |-> "family_communication_generation",
             contacts |-> Len(normalized_messages),
             confidence |-> confidence,
             tokens |-> TokensUsed(r)])

(* str(e) of what the try block raises: float(confidence) refuses None
   and a non-numeric string *)
CommunicationRaised(r) ==
    LET confidence == IF r.kind = "json"
                      THEN Get(r.payload, "overallConfidence", Num(DEFAULT_CONFIDENCE))
                      ELSE NullNum
    IN  IF r.kind = "call_error" THEN "Connection error."
        ELSE IF r.kind = "bad_json" THEN "Expecting value: line 1 column 1 (char 0)"
        ELSE IF r.kind = "not_object" THEN "'list' object has no attribute 'get'"
        ELSE IF confidence.k = "null" THEN "float() argument must be a string or a real number, not 'NoneType'"
        ELSE IF confidence.k = "str" THEN "could not convert string to float"
        ELSE ""

communication_agent(st, r) ==
    LET error == CommunicationRaised(r)
    IN  IF NoContacts(st) THEN CommunicationNoContacts(st)
        ELSE IF error = "" THEN CommunicationParsed(st, r)
        ELSE IF r.kind = "json"
        THEN CommunicationFallback(Put(st, "family_messages", NormalizedMessages(r.payload)), error)
        ELSE CommunicationFallback(st, error)

---------------------------------------------------------------------------
(* What the collaborator may answer: small sets of outcomes that cover a   *)
(* failed call, unparseable content, a JSON value of the wrong shape and   *)
(* JSON objects whose fields are omitted, null, in range and out of range. *)

Omitted == "<omitted>"
OmittedNum == [k |-> "omitted", v |-> 0]

UsageReplies == {NullNum, Num(7)}
ConfidenceReplies == {OmittedNum, NullNum, Num(45), Num(70)}
SeverityReplies == {OmittedNum, NullNum, Num(2), Num(4), Num(7)}
TypeReplies == {Omitted, "medical", "accident"}

FailedReplies ==
    {[kind |-> "call_error"]}
        \cup {[kind |-> "bad_json", usage |-> Num(7)]}
        \cup {[kind |-> "not_object", usage |-> Num(7)]}

(* {"emergencyType": t, "severity": sv, "immediateRisks": [...],
    "confidence": c}, a key left out when its value is omitted *)
SituationJson(u, t, sv, c) ==
    [kind |-> "json", usage |-> u,
     payload |-> [key \in {"immediateRisks"}
                          \cup (IF t = Omitted THEN {} ELSE {"emergencyType"})
                          \cup (IF sv = OmittedNum THEN {} ELSE {"severity"})
                          \cup (IF c = OmittedNum THEN {} ELSE {"confidence"}) |->
                   CASE key = "immediateRisks" -> <<"smoke", "burns">>
                     [] key = "emergencyType" -> t
                     [] key = "severity" -> sv
                     [] key = "confidence" -> c]]

GuidanceJson(u, c) ==
    [kind |-> "json", usage |-> u,
     payload |-> [key \in {"recommendedResponse", "guidanceSteps"}
                          \cup (IF c = OmittedNum THEN {} ELSE {"confidence"}) |->
                   CASE key = "recommendedResponse" -> "call_911"
                     [] key = "guidanceSteps" -> <<"Leave the building", "Call 911">>
                     [] key = "confidence" -> c]]

ResourceJson(u, c) ==
    [kind |-> "json", usage |-> u,
     payload |-> [key \in {"emergencyServices", "nearbyResources", "additionalResources"}
                          \cup (IF c = OmittedNum THEN {} ELSE {"confidence"}) |->
                   CASE key = "emergencyServices" -> "112"
                     [] key = "nearbyResources" -> <<"City Hospital - 2 km">>
                     [] key = "additionalResources" -> <<"Poison control hotline">>
                     [] key = "confidence" -> c]]

(* {"contacts": [{...}, {...}], "overallConfidence": c}; the second
   message leaves out its name and its whatsapp text *)
CommunicationJson(u, c) ==
    [kind |-> "json", usage |-> u,
     payload |-> [key \in {"contacts"}
                          \cup (IF c = OmittedNum THEN {} ELSE {"overallConfidence"}) |->
                   CASE key = "contacts" ->
                            <<[name |-> "Ana", relation |-> "sister",
                               sms |-> "Fire at home, call me", whatsapp |-> "Fire at home"],
                              [relation |-> "brother", sms |-> "Fire at home"]>>
                     [] key = "overallConfidence" -> c]]

SituationReplies ==
    FailedReplies \cup
    {SituationJson(u, t, sv, c) :
        u \in UsageReplies, t \in TypeReplies, sv \in SeverityReplies,
        c \in ConfidenceReplies}

GuidanceReplies ==
    FailedReplies \cup {GuidanceJson(u, c) : u \in UsageReplies, c \in ConfidenceReplies}

ResourceReplies ==
    FailedReplies \cup {ResourceJson(u, c) : u \in UsageReplies, c \in ConfidenceReplies}

---------------------------------------------------------------------------
(* main.py, /assess-multi: the request, the initial state, the result *)

(* EmergencyRequest bodies the endpoint may receive; a body without
   "description" fails validation before the handler runs *)
Requests ==
    {[description |-> d, location |-> l, thread_id |-> NoneStr] :
        d \in {"", "Kitchen fire, smoke everywhere"}, l \in {NoneStr}}
        \cup {[location |-> NoneStr, thread_id |-> NoneStr]}

NoRequest == [none |-> TRUE]
NoResponse == [status |-> 0]

(* an initial_state that holds the input and the ids only *)
InitialState_InputsOnly(req, thread_id, workflow_id) ==
    [description |-> req.description,
     location |-> req.location,
     thread_id |-> thread_id,
     workflow_id |-> workflow_id]

(* the dict literal the handler passes to emergency_graph.invoke *)
InitialState(req, thread_id, workflow_id) ==
    [description |-> req.description,
     location |-> req.location,
     thread_id |-> thread_id,
     workflow_id |-> workflow_id,
     agents_called |-> <<>>,
     assessment_complete |-> FALSE,
     total_tokens |-> 0,
     messages |-> <<>>,
     execution_trace |-> <<>>,
     performance_metrics |-> <<>>]

(* models.py: the Field(ge=..., le=...) bounds the response models check *)
MIN_SEVERITY == 1
MAX_SEVERITY == 5
MIN_CONFIDENCE == 10
MAX_CONFIDENCE == 50

ValidSeverity(x) == IsNum(x) /\ MIN_SEVERITY <= x.v /\ x.v <= MAX_SEVERITY

(* Optional[float] with ge / le: None passes, a number must be in range *)
ValidConfidence(x) ==
    x.k = "null" \/ (IsNum(x) /\ MIN_CONFIDENCE <= x.v /\ x.v <= MAX_CONFIDENCE)

(* whether Assessment(...), Guidance(...) and Resource(...) all validate *)
ResponseValidates(final_state) ==
    /\ ValidSeverity(Get(final_state, "severity", Num(DEFAULT_SEVERITY)))
    /\ ValidConfidence(Get(final_state, "situation_confidence", NullNum))
    /\ ValidConfidence(Get(final_state, "guidance_confidence", NullNum))
    /\ ValidConfidence(Get(final_state, "resource_confidence", NullNum))

(* "routing_decisions": one line per routing_decision event, in order *)
RoutingDecisions(execution_trace) ==
    LET F[i \in 0..Len(execution_trace)] ==
            IF i = 0 THEN <<>>
            ELSE IF execution_trace[i].action = "routing_decision"
                 THEN Append(F[i - 1],
                             [agent |-> execution_trace[i].agent,
                              next_agent |-> execution_trace[i].next_agent,
                              reason |-> execution_trace[i].reason])
                 ELSE F[i - 1]
    IN  F[Len(execution_trace)]

(* "Extract execution metrics": the time of an event is added to the
   entry of its agent only "if exec_time > 0" *)
AgentTimings(execution_trace) ==
    LET F[i \in 0..Len(execution_trace)] ==
            IF i = 0 THEN [agent \in {} |-> 0]
            ELSE LET trace == execution_trace[i]
                     agent == Get(trace, "agent", "unknown")
                     exec_time == Get(trace, "execution_time", 0)
                     agent_timings == F[i - 1]
                 IN  IF exec_time > 0
                     THEN Put(agent_timings, agent, Get(agent_timings, agent, 0) + exec_time)
                     ELSE agent_timings
    IN  F[Len(execution_trace)]

(* MultiAgentResponse built from the final state *)
BuildResponse(final_state, workflow_id) ==
    [status |-> 200,
     assessment |->
        [emergency_type |-> Get(final_state, "emergency_type", "unknown"),
         severity |-> Get(final_state, "severity", Num(DEFAULT_SEVERITY)),
         immediate_risks |-> Get(final_state, "immediate_risks", <<>>),
         recommended_response |-> Get(final_state, "recommended_response", "contact_help"),
         confidence |-> Get(final_state, "situation_confidence", NullNum)],
     guidance |->
        [steps |-> Get(final_state, "guidance_steps", <<>>),
         provided_by |-> GUIDANCE,
         confidence |-> Get(final_state, "guidance_confidence", NullNum)],
     resources |->
        [nearby_hospitals |-> IF "nearby_hospitals" \in DOMAIN final_state
                              THEN ListOf(final_state["nearby_hospitals"])
                              ELSE NotAList,
         emergency_services |-> Get(final_state, "emergency_services", "911"),
         provided_by |-> RESOURCE,
         confidence |-> Get(final_state, "resource_confidence", NullNum)],
     orchestration |->
        [agents_called |-> Get(final_state, "agents_called", <<>>),
         total_tokens |-> Get(final_state, "total_tokens", 0),
         workflow_id |-> workflow_id],
     metrics |->
        [execution_trace |-> Get(final_state, "execution_trace", <<>>),
         agent_timings |-> AgentTimings(Get(final_state, "execution_trace", <<>>)),
         routing_decisions |-> RoutingDecisions(Get(final_state, "execution_trace", <<>>))]]

(* the handler's "except Exception": HTTPException(500) *)
ServerError(detail) == [status |-> 500, detail |-> detail]

---------------------------------------------------------------------------
(* The run: the handler of main.py around the graph of graph_builder.py    *)
(* (entry point supervisor, a conditional edge out of it, an edge from     *)
(* every specialist back to it).                                           *)

(* the conditional edge's mapping: graph_builder.py, add_conditional_edges *)
EdgeTargets == {SITUATION, GUIDANCE, RESOURCE, END}

EmptyChannels == [messages |-> <<>>]

(* a handler that has not taken up a request *)
NoRun ==
    [pc |-> "idle", request |-> NoRequest, state |-> EmptyChannels,
     response |-> NoResponse, calls |-> <<>>]

Init ==
    /\ pc = "idle"
    /\ request = NoRequest
    /\ state = EmptyChannels
    /\ response = NoResponse
    /\ calls = <<>>
    /\ unit = 0
    /\ clock = 0
    /\ cancelled = FALSE
    /\ parked = NoRun
    /\ elapsed = 1

(* a body without description: FastAPI answers 422, the handler never runs *)
RejectRequest ==
    /\ pc = "idle"
    /\ \E req \in Requests :
        /\ "description" \notin DOMAIN req
        /\ request' = req
    /\ pc' = "rejected"
    /\ response' = [status |-> 422]
    /\ UNCHANGED <<state, calls, unit, clock, cancelled, parked, elapsed>>

(* the handler up to emergency_graph.invoke: the input is written over the
   channels and the graph starts at its entry point *)
StartOn(requests) ==
    /\ pc = "idle"
    /\ \E req \in requests :
        /\ "description" \in DOMAIN req
        /\ request' = req
        /\ state' = Overlay(InitialState(req,
                                IF req.thread_id = NoneStr THEN "uuid4-thread" ELSE req.thread_id,
                                "uuid4-workflow"),
                            state)
    /\ pc' = SUPERVISOR
    /\ UNCHANGED <<response, calls, unit, clock, cancelled, parked, elapsed>>

StartRun == StartOn(Requests)

(* the supervisor node; an exception leaves the graph and the handler
   turns it into a 500 *)
SupervisorStep ==
    /\ pc = SUPERVISOR
    /\ IF SupervisorRaises(state)
       THEN /\ pc' = "failed"
            /\ response' = ServerError("'>=' not supported between instances")
            /\ UNCHANGED state
       ELSE /\ state' = Stamped(supervisor_agent(state), clock, elapsed)
            /\ pc' = "route"
            /\ UNCHANGED response
    /\ UNCHANGED <<request, calls, unit, clock, cancelled, parked, elapsed>>

(* the conditional edge: a specialist, or END when the slot holds "end" *)
RouteStep ==
    /\ pc = "route"
    /\ LET target == route_to_next_agent(state)
       IN  IF target \notin EdgeTargets
           THEN /\ pc' = "failed"
                /\ response' = ServerError("unknown branch")
           ELSE /\ pc' = IF target = END THEN "respond" ELSE target
                /\ UNCHANGED response
    /\ UNCHANGED <<request, state, calls, unit, clock, cancelled, parked, elapsed>>

(* the record of one collaborator call: who called, what came back *)
Called(name, r, confidence_key) ==
    [agent |-> name,
     kind |-> r.kind,
     usage |-> IF r.kind = "call_error" THEN NullNum ELSE r.usage,
     confidence |-> IF r.kind = "json"
                    THEN Get(r.payload, confidence_key, OmittedNum)
                    ELSE OmittedNum]

(* an edge from the situation node straight to the guidance node *)
SituationOn_EdgeToGuidance(replies) ==
    /\ pc = SITUATION
    /\ \E r \in replies :
        /\ state' = Stamped(situation_agent(state, r), clock, elapsed)
        /\ calls' = Append(calls, Called(SITUATION, r, "confidence"))
    /\ pc' = GUIDANCE
    /\ UNCHANGED <<request, response, unit, clock, cancelled, parked, elapsed>>

(* a specialist node run by the graph on one collaborator outcome, then
   the edge back to the supervisor *)
SituationOn(replies) ==
    /\ pc = SITUATION
    /\ \E r \in replies :
        /\ state' = Stamped(situation_agent(state, r), clock, elapsed)
        /\ calls' = Append(calls, Called(SITUATION, r, "confidence"))
    /\ pc' = SUPERVISOR
    /\ UNCHANGED <<request, response, unit, clock, cancelled, parked, elapsed>>

GuidanceOn(replies) ==
    /\ pc = GUIDANCE
    /\ \E r \in replies :
        /\ state' = Stamped(guidance_agent(state, r), clock, elapsed)
        /\ calls' = Append(calls, Called(GUIDANCE, r, "confidence"))
    /\ pc' = SUPERVISOR
    /\ UNCHANGED <<request, response, unit, clock, cancelled, parked, elapsed>>

ResourceOn(replies) ==
    /\ pc = RESOURCE
    /\ \E r \in replies :
        /\ state' = Stamped(resource_agent(state, r), clock, elapsed)
        /\ calls' = Append(calls, Called(RESOURCE, r, "confidence"))
    /\ pc' = SUPERVISOR
    /\ UNCHANGED <<request, response, unit, clock, cancelled, parked, elapsed>>

SituationStep == SituationOn(SituationReplies)

GuidanceStep == GuidanceOn(GuidanceReplies)

ResourceStep == ResourceOn(ResourceReplies)

(* the handler after invoke returned: the response models are built and
   validated; a ValidationError is caught and answered with a 500 *)
Respond ==
    /\ pc = "respond"
    /\ IF ResponseValidates(state)
       THEN /\ pc' = "done"
            /\ response' = BuildResponse(state, state["workflow_id"])
       ELSE /\ pc' = "failed"
            /\ response' = ServerError("validation error")
    /\ UNCHANGED <<request, state, calls, unit, clock, cancelled, parked, elapsed>>

Next ==
    \/ RejectRequest
    \/ StartRun
    \/ SupervisorStep
    \/ RouteStep
    \/ SituationStep
    \/ GuidanceStep
    \/ ResourceStep
    \/ Respond

Spec == Init /\ [][Next]_vars

---------------------------------------------------------------------------
(* Direct invocation.  The node functions are plain functions of the       *)
(* record: a caller (a test, another graph) may take the record as it is   *)
(* between two nodes of a run and call them itself, in any order and more  *)
(* than once.  communication_agent is only ever run this way: the graph    *)
(* has no node for it.  The run that produces the record uses a few        *)
(* collaborator outcomes per stage; the direct calls use every kind.       *)

MaxUnitCalls == 2

SituationRunReplies ==
    {[kind |-> "call_error"]}
        \cup {SituationJson(Num(7), t, sv, Num(45)) :
                t \in {"medical", "accident"}, sv \in {NullNum, Num(2)}}

GuidanceRunReplies == {[kind |-> "bad_json", usage |-> Num(7)], GuidanceJson(Num(7), Num(45))}

ResourceRunReplies == {[kind |-> "call_error"], ResourceJson(NullNum, OmittedNum)}

SituationUnitReplies ==
    FailedReplies \cup {SituationJson(Num(7), "medical", Num(4), c) : c \in {NullNum, Num(45)}}

GuidanceUnitReplies ==
    FailedReplies \cup {GuidanceJson(Num(7), c) : c \in {StrNum, Num(45)}}

ResourceUnitReplies ==
    FailedReplies \cup {ResourceJson(Num(7), c) : c \in {NullNum, Num(45)}}

CommunicationUnitReplies ==
    FailedReplies \cup {CommunicationJson(Num(7), c) : c \in {NullNum, StrNum, Num(45)}}

UnitRequests ==
    {[description |-> "Kitchen fire, smoke everywhere", location |-> "12 Elm Street",
      thread_id |-> NoneStr]}

(* the contacts a direct caller may put into the record *)
SomeContacts ==
    ListOf(<<[name |-> "Ana", relation |-> "sister", phone |-> "555-0100"],
             [relation |-> "brother"]>>)

(* what a direct caller may put under family_contacts: a list of two
   contacts, an empty list, a value that is not a list *)
ContactValues == {SomeContacts, ListOf(<<>>), NotAList}

(* the record leaves the graph between two nodes *)
Detach ==
    /\ pc = SUPERVISOR
    /\ unit = 0
    /\ pc' = "unit"
    /\ \E st \in {state} \cup {Put(state, "family_contacts", c) : c \in ContactValues} :
        state' = st
    /\ UNCHANGED <<request, response, calls, unit, clock, cancelled, parked, elapsed>>

UnitSupervisor ==
    /\ pc = "unit"
    /\ unit < MaxUnitCalls
    /\ unit' = unit + 1
    /\ IF SupervisorRaises(state)
       THEN pc' = "raised" /\ UNCHANGED state
       ELSE pc' = pc /\ state' = Stamped(supervisor_agent(state), clock, elapsed)
    /\ UNCHANGED <<request, response, calls, clock, cancelled, parked, elapsed>>

UnitSituation ==
    /\ pc = "unit"
    /\ unit < MaxUnitCalls
    /\ unit' = unit + 1
    /\ \E r \in SituationUnitReplies :
        /\ state' = Stamped(situation_agent(state, r), clock, elapsed)
        /\ calls' = Append(calls, Called(SITUATION, r, "confidence"))
    /\ UNCHANGED <<pc, request, response, clock, cancelled, parked, elapsed>>

UnitGuidance ==
    /\ pc = "unit"
    /\ unit < MaxUnitCalls
    /\ unit' = unit + 1
    /\ \E r \in GuidanceUnitReplies :
        /\ state' = Stamped(guidance_agent(state, r), clock, elapsed)
        /\ calls' = Append(calls, Called(GUIDANCE, r, "confidence"))
    /\ UNCHANGED <<pc, request, response, clock, cancelled, parked, elapsed>>

UnitResource ==
    /\ pc = "unit"
    /\ unit < MaxUnitCalls
    /\ unit' = unit + 1
    /\ \E r \in ResourceUnitReplies :
        /\ state' = Stamped(resource_agent(state, r), clock, elapsed)
        /\ calls' = Append(calls, Called(RESOURCE, r, "confidence"))
    /\ UNCHANGED <<pc, request, response, clock, cancelled, parked, elapsed>>

(* without contacts the stage returns before it calls the collaborator *)
UnitCommunication ==
    /\ pc = "unit"
    /\ unit < MaxUnitCalls
    /\ unit' = unit + 1
    /\ \E r \in CommunicationUnitReplies :
        /\ state' = Stamped(communication_agent(state, r), clock, elapsed)
        /\ calls' = IF NoContacts(state) THEN calls
                    ELSE Append(calls, Called(COMMUNICATION, r, "overallConfidence"))
    /\ UNCHANGED <<pc, request, response, clock, cancelled, parked, elapsed>>

NextUnit ==
    \/ StartOn(UnitRequests)
    \/ SupervisorStep
    \/ RouteStep
    \/ SituationOn(SituationRunReplies)
    \/ GuidanceOn(GuidanceRunReplies)
    \/ ResourceOn(ResourceRunReplies)
    \/ Respond
    \/ Detach
    \/ UnitSupervisor
    \/ UnitSituation
    \/ UnitGuidance
    \/ UnitResource
    \/ UnitCommunication

SpecUnit == Init /\ [][NextUnit]_vars

---------------------------------------------------------------------------
(* Properties *)

(* the run is over: a result, an HTTP 500, or a rejected body *)
Finished == pc \in {"done", "failed", "rejected"}

Trace == Get(state, "execution_trace", <<>>)

EventsOf(agents) == {i \in 1..Len(Trace) : Trace[i].agent \in agents}

Stages == {SITUATION, GUIDANCE, RESOURCE}

(* the process that serves the request keeps running: a step that can be
   taken is taken *)
FairSpec == Spec /\ WF_vars(Next)

(* how often the supervisor has been evaluated in this run: once per trace
   event of its own, plus the evaluation that raised, if one did *)
RouterEvaluations ==
    Cardinality(EventsOf({SUPERVISOR}))
        + (IF pc = "failed" /\ SupervisorRaises(state) THEN 1 ELSE 0)

(* the stages whose id is in the executed list *)
StagesExecuted ==
    {a \in Stages : Contains(Get(state, "agents_called", <<>>), a)}

(* C1: every run ends, whatever the collaborator answers: the router is
   evaluated at most 4 times (3 routable stages + 1), the trace holds at
   most 4 supervisor events and 3 stage events, and the run reaches its
   end.  What bounds the evaluations is that every stage run adds a new id
   to the executed list: the router has been evaluated at most once more
   than there are stages executed *)
C1_RunTerminates ==
    /\ [](/\ RouterEvaluations <= Cardinality(Stages) + 1
          /\ Cardinality(EventsOf({SUPERVISOR})) <= Cardinality(Stages) + 1
          /\ Cardinality(EventsOf(Stages)) <= Cardinality(Stages)
          /\ RouterEvaluations <= Cardinality(StagesExecuted) + 1
          /\ Cardinality(EventsOf(Stages)) <= Cardinality(StagesExecuted))
    /\ <>[]Finished

(* a run that used every evaluation: 4 supervisor events, 3 stage events *)
C1_Witness ==
    /\ pc = "done"
    /\ request.description # ""
    /\ Cardinality(EventsOf({SUPERVISOR})) = 4
    /\ Cardinality(EventsOf(Stages)) = 3

---------------------------------------------------------------------------
(* Fallback payloads as the sources spell them, and what "failed" means    *)

Executed(name) == Contains(Get(state, "agents_called", <<>>), name)

LastEvent == Trace[Len(Trace)]

(* the collaborator call failed: it raised, or its content did not parse
   into a JSON object *)
CallFailed(c) == c.kind \in {"call_error", "bad_json", "not_object"}

AllCallsFailed == \A i \in 1..Len(calls) : CallFailed(calls[i])

(* the call, or the parsing of what it returned, failed: also a JSON
   object whose confidence is no number *)
ReplyFailed(c) ==
    CallFailed(c) \/ (c.kind = "json" /\ c.confidence.k \in {"null", "str"})

HoldsSituationFallback(st) ==
    /\ {"emergency_type", "severity", "immediate_risks", "situation_confidence"} \subseteq DOMAIN st
    /\ st["emergency_type"] = "unknown"
    /\ st["severity"] = Num(3)
    /\ st["immediate_risks"] = <<"Unable to assess - proceed with caution">>
    /\ st["situation_confidence"] = Num(10)

HoldsGuidanceFallback(st) ==
    /\ {"recommended_response", "guidance_steps", "guidance_confidence"} \subseteq DOMAIN st
    /\ st["recommended_response"] = "contact_help"
    /\ st["guidance_steps"] = <<"Stay calm and assess the situation",
                                "Move to a safe location if possible",
                                "Call for help if needed",
                                "Follow any official emergency instructions",
                                "Wait for assistance to arrive">>
    /\ st["guidance_confidence"] = Num(10)

HoldsResourceFallback(st) ==
    /\ {"emergency_services", "nearby_hospitals", "additional_resources",
        "resource_confidence"} \subseteq DOMAIN st
    /\ st["emergency_services"] = "911"
    /\ st["nearby_hospitals"] = <<"Call 911 for nearest emergency facility">>
    /\ st["additional_resources"] = <<"National Emergency Hotline: 911">>
    /\ st["resource_confidence"] = Num(10)

(* one template message pair per contact of the record, confidence 1.0 *)
HoldsCommunicationFallback(st) ==
    /\ {"family_messages", "communication_confidence", "family_contacts"} \subseteq DOMAIN st
    /\ st["communication_confidence"] = Num(10)
    /\ Len(st["family_messages"]) = Len(st["family_contacts"].v)
    /\ \A i \in 1..Len(st["family_messages"]) :
        /\ DOMAIN st["family_messages"][i] = {"name", "relation", "sms", "whatsapp"}
        /\ st["family_messages"][i].name
              = Get(st["family_contacts"].v[i], "name", "Unknown")
        /\ st["family_messages"][i].relation
              = Get(st["family_contacts"].v[i], "relation", "family")
        /\ st["family_messages"][i].sms.emergency_type = Get(st, "emergency_type", "unknown")
        /\ st["family_messages"][i].whatsapp.severity = Get(st, "severity", Num(3))

HoldsFallback(name, st) ==
    CASE name = SITUATION -> HoldsSituationFallback(st)
      [] name = GUIDANCE -> HoldsGuidanceFallback(st)
      [] name = RESOURCE -> HoldsResourceFallback(st)
      [] name = COMMUNICATION -> HoldsCommunicationFallback(st)

ErrorEventsOf(name) ==
    {i \in 1..Len(Trace) : Trace[i].agent = name /\ Trace[i].action = "error"}

(* C2: if every collaborator call fails, the run still reaches the
   terminal decision and its result: it never fails, the fields of every
   stage executed hold that stage's fallback values with confidence 1.0
   and the trace has one "error" event for it, and the finished run has
   executed all three stages *)
C2_FallbackGuarantee ==
    /\ [](AllCallsFailed =>
            /\ pc # "failed"
            /\ \A a \in Stages :
                /\ Executed(a) => HoldsFallback(a, state)
                /\ Cardinality(ErrorEventsOf(a)) = (IF Executed(a) THEN 1 ELSE 0)
            /\ pc = "done" =>
                /\ state["assessment_complete"]
                /\ \A a \in Stages : Executed(a)
                /\ response.status = 200
                /\ response.assessment.confidence = Num(10)
                /\ response.guidance.confidence = Num(10)
                /\ response.resources.confidence = Num(10))
    /\ <>(pc \in {"done", "rejected"} \/ ~AllCallsFailed)

(* a finished run all three of whose collaborator calls failed *)
C2_Witness ==
    /\ pc = "done"
    /\ Len(calls) = 3
    /\ AllCallsFailed
    /\ Cardinality(EventsOf(Stages)) = 3

AllStages == Stages \cup {COMMUNICATION}

LastCall == calls[Len(calls)]

(* C3: when a stage's collaborator call, or the parsing of its reply,
   fails, the failure stays inside the stage: the owned fields hold the
   stage's fallback payload, the stage confidence is 1.0, and exactly one
   event is appended to the trace, an "error" event of that stage with
   the error's description *)
C3_StageFailureContained ==
    [][\A a \in AllStages :
        (/\ Len(calls') = Len(calls) + 1
         /\ LastCall'.agent = a
         /\ ReplyFailed(LastCall'))
        => /\ pc' \notin {"failed", "raised"}
           /\ HoldsFallback(a, state')
           /\ Contains(state'["agents_called"], a)
           /\ Len(Trace') = Len(Trace) + 1
           /\ \A i \in 1..Len(Trace) : Trace'[i] = Trace[i]
           /\ LastEvent'.agent = a
           /\ LastEvent'.action = "error"
           /\ LastEvent'.error # ""]_vars

(* the communication stage, invoked with two contacts, has just fallen
   back to its template messages *)
C3_Witness ==
    /\ pc = "unit"
    /\ Len(calls) > 0
    /\ LastCall.agent = COMMUNICATION
    /\ ReplyFailed(LastCall)
    /\ Len(Trace) > 0
    /\ LastEvent.action = "error"
    /\ LastEvent.agent = COMMUNICATION
    /\ Len(state["family_messages"]) = 2

---------------------------------------------------------------------------
(* Routing                                                                 *)

RecordedSeverity == Get(state, "severity", Num(3))

RecordedCategory == Get(state, "emergency_type", NoneStr)

ResourceCategories == {"medical", "security", "natural_disaster"}

(* the fixed-priority table, read off a record *)
TableDecision(st) ==
    LET executed == Get(st, "agents_called", <<>>)
        severity == Get(st, "severity", Num(3))
        category == Get(st, "emergency_type", NoneStr)
    IN  IF ~Contains(executed, SITUATION) THEN SITUATION
        ELSE IF ~Contains(executed, GUIDANCE) THEN GUIDANCE
        ELSE IF ~Contains(executed, RESOURCE)
        THEN IF (IsNum(severity) /\ severity.v >= 3) \/ category \in ResourceCategories
             THEN RESOURCE
             ELSE END
        ELSE END

(* C4: for every record the router is evaluated on, the router writes the
   next stage that the fixed-priority table gives for that record *)
C4_RouterFollowsTable ==
    [][pc = SUPERVISOR =>
          /\ pc' = "route"
          /\ state'["next_agent"] = TableDecision(state)]_vars

RouterJustRan == Len(Trace) > 0 /\ LastEvent.agent = SUPERVISOR

(* C5: a router invocation that follows a router invocation, no stage
   having run in between, does not raise and writes the next stage and
   the terminal flag the one before it wrote, while it appends one more
   trace event and leaves the executed list alone *)
C5_RouterIdempotent ==
    [][RouterJustRan =>
          /\ pc' # "raised"
          /\ (Len(Trace') = Len(Trace) + 1 /\ LastEvent'.agent = SUPERVISOR)
                => /\ state'["next_agent"] = state["next_agent"]
                   /\ Get(state', "assessment_complete", FALSE)
                          = Get(state, "assessment_complete", FALSE)
                   /\ LastEvent'.next_agent = LastEvent.next_agent
                   /\ state'["agents_called"] = state["agents_called"]]_vars

(* the router has run twice in a row on a record whose situation and
   guidance stages are done *)
C5_Witness ==
    /\ pc = "unit"
    /\ Len(Trace) >= 2
    /\ LastEvent.agent = SUPERVISOR
    /\ Trace[Len(Trace) - 1].agent = SUPERVISOR
    /\ Executed(GUIDANCE)
    /\ state["next_agent"] \in {RESOURCE, END}

(* the stages in the order of their trace events *)
StageSequence ==
    LET events == SelectSeq(Trace, LAMBDA e : e.agent \in Stages)
    IN  [i \in 1..Len(events) |-> events[i].agent]

Terminal == Get(state, "assessment_complete", FALSE)

LowSeverityRecorded ==
    /\ Executed(SITUATION)
    /\ IsNum(RecordedSeverity)
    /\ RecordedSeverity.v < 3
    /\ RecordedCategory \notin ResourceCategories

(* C6: in a run whose situation stage recorded a severity below 3 and a
   category outside {medical, security, natural_disaster}, the resource
   stage is never invoked, the stages run are situation then guidance,
   the run ends only after the terminal decision, and that decision
   carries the reason "Low severity - resources not needed" *)
C6_LowSeveritySkipsResource ==
    LowSeverityRecorded =>
        /\ pc # RESOURCE
        /\ ~Executed(RESOURCE)
        /\ \A i \in 1..Len(calls) : calls[i].agent # RESOURCE
        /\ StageSequence \in {<<SITUATION>>, <<SITUATION, GUIDANCE>>}
        /\ (Terminal \/ Finished) =>
            /\ Terminal
            /\ StageSequence = <<SITUATION, GUIDANCE>>
            /\ state["next_agent"] = END
            /\ LastEvent.agent = SUPERVISOR
            /\ LastEvent.next_agent = END
            /\ LastEvent.reason.text = "Low severity - resources not needed"

(* severity 2, category "accident": the run is over without resources *)
C6_Witness ==
    /\ pc = "done"
    /\ RecordedSeverity = Num(2)
    /\ RecordedCategory = "accident"
    /\ response.orchestration.agents_called = <<SUPERVISOR, SITUATION, GUIDANCE>>

HighSeverityRecorded ==
    /\ Executed(SITUATION)
    /\ \/ IsNum(RecordedSeverity) /\ RecordedSeverity.v >= 3
       \/ RecordedCategory \in ResourceCategories

(* C7: a run whose situation stage recorded a severity of 3 or more, or a
   category in {medical, security, natural_disaster}, ends only after
   situation, guidance and resource have run in this order and the
   terminal decision is taken, and the routing decision that invoked the
   resource stage names the recorded severity *)
C7_HighSeverityRunsResource ==
    (HighSeverityRecorded /\ Finished) =>
        /\ Terminal
        /\ StageSequence = <<SITUATION, GUIDANCE, RESOURCE>>
        /\ \E i \in EventsOf({SUPERVISOR}) :
            /\ Trace[i].next_agent = RESOURCE
            /\ Trace[i].reason.severity = RecordedSeverity

---------------------------------------------------------------------------
(* Outcome of the run, and the ranges of what the stages record            *)

(* C8: a run fails only on input validation or on an unrecognized next
   stage, whatever the collaborator returned, and a run that returns has
   a complete result *)
C8_NoCollaboratorOutcomeFails ==
    /\ pc = "failed" => response.detail = "unknown branch"
    /\ pc = "done" =>
        /\ response.status = 200
        /\ {"assessment", "guidance", "resources", "orchestration", "metrics"}
              \subseteq DOMAIN response

(* C9: the severity of the record, when present, is an integer in 1..5 *)
C9_SeverityInRange ==
    "severity" \in DOMAIN state =>
        /\ IsNum(state["severity"])
        /\ 1 <= state["severity"].v
        /\ state["severity"].v <= 5

ConfidenceFields ==
    {"situation_confidence", "guidance_confidence", "resource_confidence",
     "communication_confidence"}

(* C10: every stage confidence of the record that is present lies in
   [1.0, 5.0] (in tenths: 10..50) *)
C10_ConfidenceInRange ==
    \A k \in ConfidenceFields :
        k \in DOMAIN state =>
            /\ IsNum(state[k])
            /\ 10 <= state[k].v
            /\ state[k].v <= 50

---------------------------------------------------------------------------
(* Request validation, the terminal flag, the executed list                *)

(* C11: a run whose description is empty is rejected before the router or
   any stage is invoked: it makes no collaborator call and has no trace
   event *)
C11_EmptyDescriptionRejected ==
    ("description" \in DOMAIN request /\ request.description = "") =>
        /\ pc = "rejected"
        /\ calls = <<>>
        /\ Len(Trace) = 0

(* C12: within a run the terminal flag, once true, is true after every
   later step, router and stage invocations included *)
C12_TerminalFlagStays ==
    [][Terminal => Terminal']_vars

(* a stage has been invoked on a record whose router had already taken
   the terminal decision *)
C12_Witness ==
    /\ pc = "unit"
    /\ Terminal
    /\ Len(Trace) >= 2
    /\ Trace[Len(Trace) - 1].agent = SUPERVISOR
    /\ Trace[Len(Trace) - 1].next_agent = END
    /\ LastEvent.agent \in AllStages

ExecutedList == Get(state, "agents_called", <<>>)

(* C13: no id occurs twice in the executed list, however often the router
   or a stage is invoked *)
C13_ExecutedIdsUnique ==
    \A i, j \in 1..Len(ExecutedList) :
        ExecutedList[i] = ExecutedList[j] => i = j

(* the situation stage and the router have each been invoked twice *)
C13_Witness ==
    /\ Cardinality(EventsOf({SITUATION})) >= 2
    /\ Cardinality(EventsOf({SUPERVISOR})) >= 2
    /\ Executed(SITUATION)
    /\ Executed(SUPERVISOR)

IsPrefix(s, t) ==
    /\ Len(s) <= Len(t)
    /\ \A i \in 1..Len(s) : t[i] = s[i]

(* the place in the trace of the first event of an id *)
FirstEventOf(a) ==
    CHOOSE i \in 1..Len(Trace) :
        Trace[i].agent = a /\ \A j \in 1..(i - 1) : Trace[j].agent # a

(* the ids of the executed list stand in the order of their first events *)
ExecutedInTraceOrder ==
    /\ \A i \in 1..Len(ExecutedList) :
            \E k \in 1..Len(Trace) : Trace[k].agent = ExecutedList[i]
    /\ \A i \in 1..(Len(ExecutedList) - 1) :
            FirstEventOf(ExecutedList[i]) < FirstEventOf(ExecutedList[i + 1])

ExecutedListReported ==
    pc = "done" => response.orchestration.agents_called = ExecutedList

(* C14: within a run every step leaves the executed list as it was or
   longer at its end; after every step its ids stand in the order of
   their first trace events, and the list the result reports is the list
   of the record *)
C14_ExecutedListGrowsAtEnd ==
    [][/\ pc # "idle" => IsPrefix(ExecutedList, ExecutedList')
       /\ ExecutedInTraceOrder'
       /\ ExecutedListReported']_vars

(* a finished run that reports its four ids in the order of execution *)
C14_Witness ==
    /\ pc = "done"
    /\ response.orchestration.agents_called = <<SUPERVISOR, SITUATION, GUIDANCE, RESOURCE>>

---------------------------------------------------------------------------
(* The trace and the unit counter                                          *)

(* how often the graph has invoked the router in this run: once when the
   run starts and once after every stage; at the supervisor node the next
   invocation is still to come *)
RouterInvocations ==
    IF pc \in {"idle", "rejected", SUPERVISOR} THEN Len(calls) ELSE Len(calls) + 1

(* every stage invocation of the graph makes one collaborator call *)
StageInvocations == Len(calls)

(* C15: every router invocation and every stage invocation appends
   exactly one event, so that the trace is at every point as long as the
   number of router invocations plus the number of stage invocations *)
C15_OneEventPerInvocation ==
    Len(Trace) = RouterInvocations + StageInvocations

TraceReported ==
    pc = "done" => response.metrics.execution_trace = Trace

(* C16: within a run the trace is append-only: after every step the old
   trace is a prefix of the new one; and the trace in the result is the
   trace of the record *)
C16_TraceAppendOnly ==
    [][/\ pc # "idle" => IsPrefix(Trace, Trace')
       /\ TraceReported']_vars

(* a finished run returns its seven events *)
C16_Witness ==
    /\ pc = "done"
    /\ Len(Trace) = 7
    /\ response.metrics.execution_trace = Trace

UnitsReported(c) == IF IsNum(c.usage) THEN c.usage.v ELSE 0

(* C18: a stage invocation leaves the unit counter at its old value plus
   the usage the collaborator reported for the call, 0 if it reported
   none, also when the stage ends in its fallback *)
C18_UnitsAccumulate ==
    [][Len(calls') = Len(calls) + 1 =>
          state'["total_tokens"] = state["total_tokens"] + UnitsReported(LastCall')]_vars

---------------------------------------------------------------------------
(* Sessions.  The graph is compiled with a MemorySaver: the channel values *)
(* a run ends with are stored under its thread_id, and a later request     *)
(* that names the thread_id starts from them, the handler's initial_state  *)
(* written over them key by key.  A request without thread_id, or with one *)
(* the saver does not know, starts from empty channels.                    *)

SessionRequests ==
    {[description |-> "Kitchen fire, smoke everywhere", location |-> "12 Elm Street",
      thread_id |-> t] : t \in {NoneStr, "session-1"}}

(* what the caller may send next, knowing the thread_id of the first run *)
FollowUpRequests(thread_id) ==
    {[description |-> "The smoke is getting worse", location |-> l, thread_id |-> t] :
        l \in {NoneStr, "14 Elm Street"}, t \in {NoneStr, thread_id, "session-9"}}

(* the graph of the run has reached END: its last checkpoint is the
   record the run ended with *)
GraphCompleted == pc \in {"done", "failed"} /\ Get(state, "assessment_complete", FALSE)

(* a saver that hands out the last record whatever the thread_id *)
StartAgain_SharesStore ==
    /\ GraphCompleted
    /\ state["workflow_id"] = "uuid4-workflow"
    /\ \E req \in FollowUpRequests(state["thread_id"]) :
        LET thread_id == IF req.thread_id = NoneStr THEN "uuid4-thread-2" ELSE req.thread_id
        IN  /\ request' = req
            /\ state' = Overlay(InitialState(req, thread_id, "uuid4-workflow-2"), state)
    /\ pc' = SUPERVISOR
    /\ response' = NoResponse
    /\ calls' = <<>>
    /\ UNCHANGED <<unit, clock, cancelled, parked, elapsed>>

(* the handler up to emergency_graph.invoke, for the request that follows
   a completed run *)
StartAgain ==
    /\ GraphCompleted
    /\ state["workflow_id"] = "uuid4-workflow"
    /\ \E req \in FollowUpRequests(state["thread_id"]) :
        LET thread_id == IF req.thread_id = NoneStr THEN "uuid4-thread-2" ELSE req.thread_id
            stored == IF thread_id = state["thread_id"] THEN state ELSE EmptyChannels
        IN  /\ request' = req
            /\ state' = Overlay(InitialState(req, thread_id, "uuid4-workflow-2"), stored)
    /\ pc' = SUPERVISOR
    /\ response' = NoResponse
    /\ calls' = <<>>
    /\ UNCHANGED <<unit, clock, cancelled, parked, elapsed>>

NextSession ==
    \/ StartOn(SessionRequests)
    \/ SupervisorStep
    \/ RouteStep
    \/ SituationOn(SituationRunReplies)
    \/ GuidanceOn(GuidanceRunReplies)
    \/ ResourceOn(ResourceRunReplies)
    \/ Respond
    \/ StartAgain

SpecSession == Init /\ [][NextSession]_vars

(* a run starts on the record stored for the session id it supplies *)
SessionResumed ==
    /\ GraphCompleted
    /\ pc' = SUPERVISOR
    /\ request'.thread_id = state["thread_id"]

StageOutputFields ==
    {"emergency_type", "severity", "immediate_risks", "situation_confidence",
     "recommended_response", "guidance_steps", "guidance_confidence",
     "nearby_hospitals", "emergency_services", "additional_resources",
     "resource_confidence"}

CarriedFields == StageOutputFields \cup {"agents_called", "total_tokens", "execution_trace"}

(* C19: the record the router first sees in a run that resumes a session
   carries the stage outputs, the executed list, the unit counter and the
   trace the first run ended with *)
C19_SessionCarriesRecord ==
    [][SessionResumed =>
          \A k \in CarriedFields :
              k \in DOMAIN state => (k \in DOMAIN state' /\ state'[k] = state[k])]_vars

(* C20: the description and the location of the record a resumed run
   starts with are those of the request, not the stored ones *)
C20_CallerInputWins ==
    [][SessionResumed =>
          /\ state'["description"] = request'.description
          /\ state'["location"] = request'.location
          /\ \A k \in StageOutputFields :
                k \in DOMAIN state => (k \in DOMAIN state' /\ state'[k] = state[k])]_vars

(* the second run of a session, about to be routed: the record holds the
   first run's severity, the new description, and no location, the caller
   having sent none where the stored record had one *)
C20_Witness ==
    /\ pc = SUPERVISOR
    /\ state["workflow_id"] = "uuid4-workflow-2"
    /\ state["thread_id"] = "session-1"
    /\ "severity" \in DOMAIN state
    /\ state["description"] = "The smoke is getting worse"
    /\ state["location"] = NoneStr

---------------------------------------------------------------------------
(* Time.  time.time() reads the wall clock of the host, which runs forward *)
(* while the handler works and which the host may set, forward or back     *)
(* (an NTP step, an operator), between any two reads.                      *)

MaxClock == 2

(* the clock shows another time than before *)
Tick ==
    /\ pc \in {SUPERVISOR, "route", SITUATION, GUIDANCE, RESOURCE}
    /\ \E t \in 0..MaxClock :
        /\ t # clock
        /\ clock' = t
    /\ UNCHANGED <<pc, request, state, response, calls, unit, cancelled, parked, elapsed>>

NextClock ==
    \/ StartOn(UnitRequests)
    \/ SupervisorStep
    \/ RouteStep
    \/ SituationOn(SituationRunReplies)
    \/ GuidanceOn(GuidanceRunReplies)
    \/ ResourceOn(ResourceRunReplies)
    \/ Respond
    \/ Tick

SpecClock == Init /\ [][NextClock]_vars

(* C17: the timestamps of the trace events do not decrease along the
   trace *)
C17_TimestampsNonDecreasing ==
    \A i \in 1..Len(Trace) - 1 : Trace[i].timestamp <= Trace[i + 1].timestamp

---------------------------------------------------------------------------
(* Starting a run                                                          *)

(* a request is taken up for which the saver holds nothing: the first of
   the process, or one whose thread_id is absent or not the stored one *)
StartsUnstored ==
    /\ request' # request
    /\ "description" \in DOMAIN request'
    /\ pc = "idle" \/ request'.thread_id # state["thread_id"]

FreshRecord(st) ==
    /\ {"assessment_complete", "agents_called", "execution_trace", "total_tokens",
        "thread_id"} \subseteq DOMAIN st
    /\ st["assessment_complete"] = FALSE
    /\ st["agents_called"] = <<>>
    /\ st["execution_trace"] = <<>>
    /\ st["total_tokens"] = 0
    /\ DOMAIN st \cap (StageOutputFields \cup {"family_messages", "communication_confidence",
                                              "next_agent"}) = {}

(* C21: a request without session id, or with one nothing is stored for,
   is served: the run starts at the router on a fresh record (terminal
   false, nothing executed, empty trace, counter 0, no stage output),
   under the supplied session id or else a generated one *)
C21_UnknownSessionStartsFresh ==
    [][StartsUnstored =>
          /\ pc' = SUPERVISOR
          /\ FreshRecord(state')
          /\ state'["thread_id"] # NoneStr
          /\ request'.thread_id # NoneStr => state'["thread_id"] = request'.thread_id
          /\ state'["description"] = request'.description]_vars

(* the second request named a session the saver does not know, and its
   run has completed *)
C21_Witness ==
    /\ pc = "done"
    /\ state["workflow_id"] = "uuid4-workflow-2"
    /\ state["thread_id"] = "session-9"
    /\ response.status = 200

---------------------------------------------------------------------------
(* Cancellation.  The caller of POST /assess-multi can give up on the      *)
(* request while it is served (it closes the connection); the handler      *)
(* calls emergency_graph.invoke(initial_state, config) and waits for it,   *)
(* and neither the graph nor its nodes are handed anything to look at.     *)

(* the caller signals, between two nodes of the graph, that the run is to
   be cancelled *)
Cancel ==
    /\ pc \in {SUPERVISOR, "route"}
    /\ ~Get(state, "assessment_complete", FALSE)
    /\ ~cancelled
    /\ cancelled' = TRUE
    /\ UNCHANGED <<pc, request, state, response, calls, unit, clock, parked, elapsed>>

NextCancel ==
    \/ StartOn(UnitRequests)
    \/ SupervisorStep
    \/ RouteStep
    \/ SituationOn(SituationRunReplies)
    \/ GuidanceOn(GuidanceRunReplies)
    \/ ResourceOn(ResourceRunReplies)
    \/ Respond
    \/ Cancel

SpecCancel == Init /\ [][NextCancel]_vars

(* C22: once the cancellation signal is given no further stage is
   invoked, and the run ends with the terminal flag false and a
   "cancelled" marker in what it returns *)
C22_CancellationHonoured ==
    [][cancelled =>
          /\ Len(calls') = Len(calls)
          /\ pc' \in {"done", "failed"} =>
                /\ ~Get(state', "assessment_complete", FALSE)
                /\ "cancelled" \in DOMAIN response']_vars

---------------------------------------------------------------------------
(* Two requests served at the same time.  Each call of the handler has its *)
(* own initial_state and its own pass through the graph; what the calls    *)
(* share is the compiled graph with its MemorySaver, which keeps the       *)
(* channel values of a run under the run's thread_id.  The run the model   *)
(* is stepping is in pc, request, state, response and calls; the other one *)
(* is parked, and the scheduler may swap the two between any two nodes.    *)

ConcurrentRequests ==
    {[description |-> "Twisted ankle on the stairs", location |-> NoneStr,
      thread_id |-> "session-A"],
     [description |-> "Chest pain, short of breath", location |-> "12 Elm Street",
      thread_id |-> "session-B"],
     [description |-> "Gas smell in the kitchen", location |-> NoneStr,
      thread_id |-> "session-C"]}

(* what the collaborator answers to a stage working on a request: here it
   answers the same question the same way *)
ReplyTo(name, req) ==
    LET description == Get(req, "description", "")
    IN  IF description = "Twisted ankle on the stairs"
        THEN CASE name = SITUATION -> SituationJson(Num(7), "accident", Num(2), Num(45))
               [] name = GUIDANCE -> GuidanceJson(Num(7), Num(45))
               [] name = RESOURCE -> [kind |-> "call_error"]
        ELSE IF description = "Chest pain, short of breath"
        THEN CASE name = SITUATION -> SituationJson(Num(7), "medical", Num(4), Num(45))
               [] name = GUIDANCE -> [kind |-> "bad_json", usage |-> Num(7)]
               [] name = RESOURCE -> ResourceJson(Num(7), Num(45))
        ELSE CASE name = SITUATION -> [kind |-> "call_error"]
               [] name = GUIDANCE -> GuidanceJson(NullNum, OmittedNum)
               [] name = RESOURCE -> [kind |-> "bad_json", usage |-> Num(7)]

(* the run the model is stepping, as a context *)
ActiveRun ==
    [pc |-> pc, request |-> request, state |-> state, response |-> response,
     calls |-> calls]

(* a saver with one slot for all thread_ids *)
StoredFor_AnyThread(thread_id) ==
    IF parked.pc # "idle" THEN parked.state ELSE EmptyChannels

(* what the saver holds for a thread_id when a run starts: the channel
   values of the other run if that run has this thread_id, else nothing *)
StoredFor(thread_id) ==
    IF parked.pc # "idle" /\ parked.state["thread_id"] = thread_id
    THEN parked.state
    ELSE EmptyChannels

(* the handler up to emergency_graph.invoke, for a request whose session
   id is not that of the run under way *)
StartConcurrent ==
    /\ pc = "idle"
    /\ \E req \in ConcurrentRequests :
        /\ parked.pc # "idle" => req.thread_id # parked.request.thread_id
        /\ request' = req
        /\ state' = Overlay(InitialState(req, req.thread_id,
                                IF parked.pc = "idle" THEN "uuid4-workflow"
                                ELSE "uuid4-workflow-2"),
                            StoredFor(req.thread_id))
    /\ pc' = SUPERVISOR
    /\ UNCHANGED <<response, calls, unit, clock, cancelled, parked, elapsed>>

(* the scheduler goes on with the other request *)
Switch ==
    /\ pc # "idle"
    /\ parked' = ActiveRun
    /\ pc' = parked.pc
    /\ request' = parked.request
    /\ state' = parked.state
    /\ response' = parked.response
    /\ calls' = parked.calls
    /\ UNCHANGED <<unit, clock, cancelled, elapsed>>

NextConcurrent ==
    \/ StartConcurrent
    \/ Switch
    \/ SupervisorStep
    \/ RouteStep
    \/ SituationOn({ReplyTo(SITUATION, request)})
    \/ GuidanceOn({ReplyTo(GUIDANCE, request)})
    \/ ResourceOn({ReplyTo(RESOURCE, request)})
    \/ Respond

SpecConcurrent == Init /\ [][NextConcurrent]_vars

(* the graph run from a record to its end with nothing else going on: the
   supervisor, the stage it names, the supervisor again, until it names
   END or raises *)
RECURSIVE Drive(_, _)
Drive(st, req) ==
    IF SupervisorRaises(st) THEN st
    ELSE LET routed == Stamped(supervisor_agent(st), clock, elapsed)
             target == route_to_next_agent(routed)
         IN  IF target = SITUATION
             THEN Drive(Stamped(situation_agent(routed, ReplyTo(SITUATION, req)), clock, elapsed), req)
             ELSE IF target = GUIDANCE
             THEN Drive(Stamped(guidance_agent(routed, ReplyTo(GUIDANCE, req)), clock, elapsed), req)
             ELSE IF target = RESOURCE
             THEN Drive(Stamped(resource_agent(routed, ReplyTo(RESOURCE, req)), clock, elapsed), req)
             ELSE routed

(* the record a run's request ends with when it is served alone *)
AloneRecord(run) ==
    Drive(Overlay(InitialState(run.request, run.state["thread_id"], run.state["workflow_id"]),
                  EmptyChannels),
          run.request)

EndsAsAlone(run) ==
    /\ run.pc \in {"respond", "done", "failed"} => run.state = AloneRecord(run)
    /\ run.pc = "done" =>
          run.response = BuildResponse(AloneRecord(run), run.state["workflow_id"])

(* C23: of two runs with distinct session ids, interleaved in any way
   between nodes, each ends with the record, the trace and the result
   that its request ends with when it is served alone on the same
   collaborator replies *)
C23_ConcurrentRunsIndependent ==
    EndsAsAlone(ActiveRun) /\ EndsAsAlone(parked)

(* the run that started second has returned its result while the run
   that started first is still between two of its stages *)
C23_Witness ==
    /\ pc = "done"
    /\ state["workflow_id"] = "uuid4-workflow-2"
    /\ state["agents_called"] = <<SUPERVISOR, SITUATION, GUIDANCE>>
    /\ parked.pc = SUPERVISOR
    /\ Contains(parked.state["agents_called"], RESOURCE)

---------------------------------------------------------------------------
(* Who writes what                                                         *)

(* the step leaves every field outside the set S as it was: none added,
   none removed, none given another value *)
ChangesOnly(S) ==
    \A k \in (DOMAIN state \cup DOMAIN state') \ S :
        /\ k \in DOMAIN state
        /\ k \in DOMAIN state'
        /\ state'[k] = state[k]

SharedFields == {"agents_called", "total_tokens", "execution_trace"}

OwnedFields(a) ==
    CASE a = SITUATION ->
            {"emergency_type", "severity", "immediate_risks", "situation_confidence"}
      [] a = GUIDANCE ->
            {"recommended_response", "guidance_steps", "guidance_confidence"}
      [] a = RESOURCE ->
            {"emergency_services", "nearby_hospitals", "additional_resources",
             "resource_confidence"}
      [] a = COMMUNICATION ->
            {"family_messages", "communication_confidence"}

(* the step is an invocation of node a: it appends the one event of a *)
Invokes(a) ==
    /\ pc # "idle"
    /\ Len(Trace') = Len(Trace) + 1
    /\ LastEvent'.agent = a

(* C24: an invocation of a stage changes no field of the record but the
   fields the stage owns and the shared executed list, unit counter and
   trace *)
C24_StagesWriteOwnFields ==
    [][\A a \in AllStages :
          Invokes(a) => ChangesOnly(OwnedFields(a) \cup SharedFields)]_vars

(* the situation stage has been invoked a second time, on a record that
   holds the outputs of the guidance stage *)
C24_Witness ==
    /\ pc = "unit"
    /\ Len(Trace) > 0
    /\ LastEvent.agent = SITUATION
    /\ Cardinality(EventsOf({SITUATION})) = 2
    /\ "guidance_steps" \in DOMAIN state

NextStageValues == {"situation_agent", "guidance_agent", "resource_agent", "end"}

(* C25: the next-stage slot, when written, holds situation_agent,
   guidance_agent, resource_agent or end, never the router's own id; the
   conditional edge finds its value in the stage mapping, and no run fails
   on an unknown branch *)
C25_NextStageInMapping ==
    /\ "next_agent" \in DOMAIN state =>
          /\ state["next_agent"] \in NextStageValues
          /\ state["next_agent"] # "supervisor"
          /\ route_to_next_agent(state) \in EdgeTargets
    /\ \A i \in EventsOf({SUPERVISOR}) : Trace[i].next_agent \in NextStageValues
    /\ pc = "failed" => response.detail # "unknown branch"

(* the router of a finished run has named each of the four values *)
C25_Witness ==
    /\ pc = "done"
    /\ {Trace[i].next_agent : i \in EventsOf({SUPERVISOR})} = NextStageValues

(* the graph of the run has come to its END *)
RunCompleted == pc \in {"respond", "done"} \/ (pc = "failed" /\ Terminal)

TerminalDecisions ==
    {i \in EventsOf({SUPERVISOR}) : Trace[i].next_agent = END}

ExactlyOneTerminalDecision ==
    /\ Terminal <=> Cardinality(TerminalDecisions) = 1
    /\ Cardinality(TerminalDecisions) <= 1
    /\ Terminal => TerminalDecisions = {Len(Trace)}
    /\ RunCompleted => Terminal

(* C26: a completed run has exactly one router decision with next = end,
   that decision is the last event of its trace, and once the terminal
   flag is set no stage is invoked *)
C26_ExactlyOnceTerminal ==
    [][/\ Terminal => calls' = calls /\ Trace' = Trace
       /\ ExactlyOneTerminalDecision']_vars

(* a run completed after two stages: five events, the last one the
   terminal decision *)
C26_Witness ==
    /\ pc = "done"
    /\ Len(Trace) = 5
    /\ TerminalDecisions = {5}

(* C27: after every router invocation of a run the terminal flag is true
   exactly if the next-stage slot holds end, and the one event the
   invocation appended is the supervisor's and names the value in the
   slot; the conditional edge ends the run exactly if the flag is true *)
C27_FlagIffNextIsEnd ==
    [][(pc = SUPERVISOR /\ pc' = "route") =>
          /\ Terminal' <=> state'["next_agent"] = END
          /\ Terminal' <=> route_to_next_agent(state') = END
          /\ Len(Trace') = Len(Trace) + 1
          /\ LastEvent'.agent = SUPERVISOR
          /\ LastEvent'.next_agent = state'["next_agent"]]_vars

(* the router has just taken the terminal decision, on a record whose
   resource stage was skipped *)
C27_Witness ==
    /\ pc = "route"
    /\ Terminal
    /\ state["next_agent"] = END
    /\ ~Executed(RESOURCE)

RouterFields == {"next_agent", "assessment_complete", "agents_called", "execution_trace"}

(* C28: a router invocation changes nothing but the next-stage slot, the
   terminal flag, the executed list, to which it adds at most its own id,
   and the trace: the input fields, the stage outputs and confidences and
   the unit counter stay as they are *)
C28_RouterWritesRoutingFields ==
    [][(Invokes(SUPERVISOR) \/ (pc = SUPERVISOR /\ pc' = "route")) =>
          /\ ChangesOnly(RouterFields)
          /\ state'["agents_called"] \in
                {ExecutedList, Append(ExecutedList, SUPERVISOR)}]_vars

(* the router has been invoked directly on a record with contacts, stage
   outputs and units *)
C28_Witness ==
    /\ pc = "unit"
    /\ RouterJustRan
    /\ "family_contacts" \in DOMAIN state
    /\ "guidance_steps" \in DOMAIN state
    /\ state["total_tokens"] > 0

TraceAlternates ==
    \A i \in 1..Len(Trace) :
        IF i % 2 = 1 THEN Trace[i].agent = SUPERVISOR ELSE Trace[i].agent \in Stages

(* C29: the trace of a run alternates supervisor event, stage event,
   supervisor event, ..., and that of a completed run begins and ends
   with a supervisor event; a stage is only ever invoked right after a
   router decision and the router right after a stage or the start *)
C29_StrictlySequential ==
    /\ TraceAlternates
    /\ RunCompleted => Len(Trace) % 2 = 1
    /\ pc \in Stages => Len(Trace) % 2 = 1
    /\ pc = SUPERVISOR => Len(Trace) % 2 = 0

(* a completed run of three stages: seven events *)
C29_Witness ==
    /\ pc = "done"
    /\ Len(Trace) = 7
    /\ StageSequence = <<SITUATION, GUIDANCE, RESOURCE>>

(* C30: at the first router invocation of a run, with or without a
   session id used before, the record has the terminal flag false, an
   empty executed list, an empty trace and a unit counter of 0 *)
C30_RunStartsReset ==
    (pc = SUPERVISOR /\ calls = <<>>) =>
        /\ {"assessment_complete", "agents_called", "execution_trace", "total_tokens"}
              \subseteq DOMAIN state
        /\ state["assessment_complete"] = FALSE
        /\ state["agents_called"] = <<>>
        /\ state["execution_trace"] = <<>>
        /\ state["total_tokens"] = 0

(* the second run of a session is about to be routed for the first time:
   its record holds the outputs of the first run *)
C30_Witness ==
    /\ pc = SUPERVISOR
    /\ calls = <<>>
    /\ state["workflow_id"] = "uuid4-workflow-2"
    /\ state["thread_id"] = "session-1"
    /\ "guidance_steps" \in DOMAIN state

---------------------------------------------------------------------------
(* What a stage finds when it is invoked                                   *)

SituationOutputs == {"emergency_type", "severity", "immediate_risks", "situation_confidence"}

GuidanceOutputs == {"recommended_response", "guidance_steps", "guidance_confidence"}

(* stage a has completed in this run: its id is in the executed list, its
   event is in the trace and its outputs are in the record *)
CompletedStage(a, outputs) ==
    /\ Executed(a)
    /\ EventsOf({a}) # {}
    /\ outputs \subseteq DOMAIN state

(* C31: in every run the guidance stage is invoked only after the situation
   stage has completed in that run, its id in the executed list and
   category and severity in the record; the resource stage is invoked only
   after both the situation and the guidance stage have completed; and no
   stage is invoked a second time *)
C31_StagePrerequisites ==
    [][/\ Invokes(GUIDANCE) => CompletedStage(SITUATION, SituationOutputs)
       /\ Invokes(RESOURCE) =>
             /\ CompletedStage(SITUATION, SituationOutputs)
             /\ CompletedStage(GUIDANCE, GuidanceOutputs)
       /\ \A a \in Stages : Invokes(a) => ~Executed(a) /\ EventsOf({a}) = {}]_vars

(* the resource stage has run, after the situation and the guidance stage,
   each of them once *)
C31_Witness ==
    /\ pc = SUPERVISOR
    /\ StageSequence = <<SITUATION, GUIDANCE, RESOURCE>>
    /\ LastEvent.agent = RESOURCE

---------------------------------------------------------------------------
(* Measured times                                                          *)

MaxElapsed == 1

(* what "time.time() - start_time" may come to in a node: time.time() is
   the wall clock, so two readings may be equal, and the second may be the
   lower one when the clock has been set back *)
Durations == (0 - MaxElapsed)..MaxElapsed

(* the next node measures another time than the last one *)
Measure ==
    /\ pc \in {SUPERVISOR, SITUATION, GUIDANCE, RESOURCE}
    /\ \E d \in Durations :
        /\ d # elapsed
        /\ elapsed' = d
    /\ UNCHANGED <<pc, request, state, response, calls, unit, clock, cancelled, parked>>

NextTimings ==
    \/ StartOn(UnitRequests)
    \/ SupervisorStep
    \/ RouteStep
    \/ SituationOn(SituationRunReplies)
    \/ GuidanceOn(GuidanceRunReplies)
    \/ ResourceOn(ResourceRunReplies)
    \/ Respond
    \/ Measure

SpecTimings == Init /\ [][NextTimings]_vars

RECURSIVE SumOfDurations(_, _)
(* the durations of the events of agent a among the first n of the trace,
   added up *)
SumOfDurations(a, n) ==
    IF n = 0 THEN 0
    ELSE SumOfDurations(a, n - 1)
         + (IF Trace[n].agent = a THEN Trace[n].execution_time ELSE 0)

AgentsInTrace == {Trace[i].agent : i \in 1..Len(Trace)}

RoutingEvents == SelectSeq(Trace, LAMBDA e : e.action = "routing_decision")

(* C32: in the result of a run the total time reported for every agent
   with at least one trace event is the sum of the durations of that
   agent's events, and the routing decisions reported are the supervisor's
   routing events, one entry each, in trace order *)
C32_DerivedViews ==
    pc = "done" =>
        /\ response.metrics.execution_trace = Trace
        /\ \A a \in AgentsInTrace :
              /\ a \in DOMAIN response.metrics.agent_timings
              /\ response.metrics.agent_timings[a] = SumOfDurations(a, Len(Trace))
        /\ Len(response.metrics.routing_decisions) = Len(RoutingEvents)
        /\ \A i \in 1..Len(RoutingEvents) :
              /\ RoutingEvents[i].agent = SUPERVISOR
              /\ response.metrics.routing_decisions[i].agent = RoutingEvents[i].agent
              /\ response.metrics.routing_decisions[i].next_agent = RoutingEvents[i].next_agent
              /\ response.metrics.routing_decisions[i].reason = RoutingEvents[i].reason

---------------------------------------------------------------------------
(* The success path of a stage                                             *)

(* the replies a stage is tried on: the failed calls, and JSON objects
   whose confidence is left out, null, a string or a number, whose
   category and severity are given or left out *)
ConfidenceShapes == {OmittedNum, NullNum, StrNum, Num(45)}

SituationShapes ==
    FailedReplies \cup
    {SituationJson(Num(7), t, sv, c) :
        t \in {Omitted, "medical"}, sv \in {OmittedNum, Num(4)}, c \in ConfidenceShapes}

GuidanceShapes == FailedReplies \cup {GuidanceJson(Num(7), c) : c \in ConfidenceShapes}

ResourceShapes == FailedReplies \cup {ResourceJson(Num(7), c) : c \in ConfidenceShapes}

(* a record on which the harness may still invoke a stage *)
StageInvocable == pc = "unit" /\ unit < MaxUnitCalls

(* the call returned a JSON object whose confidence, when it has one, is a
   number: nothing in the try block raises *)
Succeeds(r) ==
    /\ r.kind = "json"
    /\ Get(r.payload, "confidence", OmittedNum).k \in {"omitted", "num"}

(* the value the reply gives for a key, or the default when it leaves the
   key out *)
Reported(r, key, default) ==
    IF key \in DOMAIN r.payload THEN r.payload[key] ELSE default

(* the record out, which a stage returned when invoked on the record of
   the state, has one event more: a non-error event of the stage that
   records the confidence *)
AppendsSuccessEvent(out, a, confidence) ==
    LET trace == Get(out, "execution_trace", <<>>)
    IN  /\ Len(trace) = Len(Trace) + 1
        /\ trace[Len(trace)].agent = a
        /\ trace[Len(trace)].action # "error"
        /\ "error" \notin DOMAIN trace[Len(trace)]
        /\ trace[Len(trace)].confidence = confidence

SituationSucceeds(r) ==
    LET out == situation_agent(state, r)
    IN  /\ out["emergency_type"] = Reported(r, "emergencyType", "unknown")
        /\ out["severity"] = Reported(r, "severity", Num(3))
        /\ out["immediate_risks"] = Reported(r, "immediateRisks", <<>>)
        /\ out["situation_confidence"] = Reported(r, "confidence", Num(30))
        /\ AppendsSuccessEvent(out, SITUATION, out["situation_confidence"])

GuidanceSucceeds(r) ==
    LET out == guidance_agent(state, r)
    IN  /\ out["recommended_response"] = Reported(r, "recommendedResponse", "contact_help")
        /\ out["guidance_steps"] = Reported(r, "guidanceSteps", <<>>)
        /\ out["guidance_confidence"] = Reported(r, "confidence", Num(30))
        /\ AppendsSuccessEvent(out, GUIDANCE, out["guidance_confidence"])

ResourceSucceeds(r) ==
    LET out == resource_agent(state, r)
    IN  /\ out["emergency_services"] = Reported(r, "emergencyServices", "911")
        /\ out["nearby_hospitals"] = Reported(r, "nearbyResources", <<>>)
        /\ out["additional_resources"] = Reported(r, "additionalResources", <<>>)
        /\ out["resource_confidence"] = Reported(r, "confidence", Num(30))
        /\ AppendsSuccessEvent(out, RESOURCE, out["resource_confidence"])

(* C33: a stage invoked on any record that direct invocations lead to, with
   a collaborator call that succeeds, writes to its owned fields the values
   the reply holds and the confidence it reports, 3.0 when the reply leaves
   the confidence out (category "unknown" and severity 3 for the situation
   stage when the reply leaves those out), and appends a non-error event
   that records this confidence *)
C33_SuccessWritesReportedValues ==
    StageInvocable =>
        /\ \A r \in SituationShapes : Succeeds(r) => SituationSucceeds(r)
        /\ \A r \in GuidanceShapes : Succeeds(r) => GuidanceSucceeds(r)
        /\ \A r \in ResourceShapes : Succeeds(r) => ResourceSucceeds(r)

(* the guidance stage has been invoked on a record that held a fallback
   of an earlier guidance invocation, and the call succeeded *)
C33_Witness ==
    /\ pc = "unit"
    /\ Len(calls) = 2
    /\ calls[1].agent = GUIDANCE
    /\ CallFailed(calls[1])
    /\ calls[2].agent = GUIDANCE
    /\ calls[2].kind = "json"
    /\ calls[2].confidence = Num(45)
    /\ LastEvent.agent = GUIDANCE
    /\ LastEvent.action = "guidance_generation"
    /\ state["guidance_confidence"] = Num(45)

---------------------------------------------------------------------------
(* The communication stage with nobody to write to                         *)

(* the record has no contact entries: the field is absent, an empty list
   or not a list *)
HasNoContacts ==
    \/ "family_contacts" \notin DOMAIN state
    \/ state["family_contacts"] = ListOf(<<>>)
    \/ state["family_contacts"] = NotAList

TimesExecuted(st, a) ==
    Cardinality({i \in 1..Len(st["agents_called"]) : st["agents_called"][i] = a})

(* C34: the communication stage invoked on a record with no contact
   entries makes no collaborator call, sets the contact messages to the
   empty list and its confidence to 1.0, has its id in the executed list
   once, leaves the unit counter as it is and appends exactly one trace
   event, with action "no_contacts" *)
C34_NoContactsShortCircuit ==
    [][(Invokes(COMMUNICATION) /\ HasNoContacts) =>
          /\ calls' = calls
          /\ "family_messages" \in DOMAIN state'
          /\ state'["family_messages"] = <<>>
          /\ state'["communication_confidence"] = Num(10)
          /\ state'["agents_called"] =
                IF Executed(COMMUNICATION) THEN ExecutedList
                ELSE Append(ExecutedList, COMMUNICATION)
          /\ TimesExecuted(state', COMMUNICATION) = 1
          /\ state'["total_tokens"] = state["total_tokens"]
          /\ Len(Trace') = Len(Trace) + 1
          /\ LastEvent'.agent = COMMUNICATION
          /\ LastEvent'.action = "no_contacts"]_vars

(* the stage has been invoked twice on a record whose contacts are not a
   list *)
C34_Witness ==
    /\ pc = "unit"
    /\ "family_contacts" \in DOMAIN state
    /\ state["family_contacts"] = NotAList
    /\ Cardinality(EventsOf({COMMUNICATION})) = 2
    /\ LastEvent.action = "no_contacts"
    /\ calls = <<>>
    /\ state["family_messages"] = <<>>

---------------------------------------------------------------------------
(* Where the outputs of a result come from                                 *)

(* C35: the outputs a result reports were written by stages of the same
   run: when the router has skipped the resource stage, the result holds
   no resource list, services contact or resource confidence of an earlier
   run of the same session, only what is reported for a stage that has
   written nothing *)
C35_OutputsFromSameRun ==
    (pc = "done" /\ ~Executed(RESOURCE) /\ EventsOf({RESOURCE}) = {}) =>
        /\ response.resources.nearby_hospitals = NotAList
        /\ response.resources.emergency_services = "911"
        /\ response.resources.confidence = NullNum

---------------------------------------------------------------------------
(* A failed assessment and the resource stage                              *)

(* the situation stage of this run has ended in its fallback path *)
SituationFellBack ==
    \E i \in EventsOf({SITUATION}) : Trace[i].action = "error"

LowSeveritySkips ==
    {i \in EventsOf({SUPERVISOR}) :
        Trace[i].reason.text = "Low severity - resources not needed"}

(* the process that serves the requests of a session keeps running *)
FairSpecSession == SpecSession /\ WF_vars(NextSession)

NoSkipAfterFallback ==
    SituationFellBack =>
        /\ LowSeveritySkips = {}
        /\ (pc = "route" /\ Executed(GUIDANCE) /\ ~Executed(RESOURCE)) =>
              state["next_agent"] = RESOURCE
        /\ (Terminal \/ pc \in {"respond", "done", "failed"}) =>
              EventsOf({RESOURCE}) # {}

(* C36: whenever the situation stage of a run has ended in its fallback
   path, the resource stage is invoked later in that run: the router never
   takes the low-severity skip, its decision after the guidance stage is
   the resource stage, and the run does not end before the resource stage
   has been invoked *)
C36_FallbackLeadsToResource ==
    /\ [][NoSkipAfterFallback']_vars
    /\ SituationFellBack ~> (EventsOf({RESOURCE}) # {})

(* a run has finished whose situation stage fell back: the three stages
   ran *)
C36_Witness ==
    /\ pc = "done"
    /\ SituationFellBack
    /\ StageSequence = <<SITUATION, GUIDANCE, RESOURCE>>

---------------------------------------------------------------------------
(* All or nothing                                                          *)

(* the record out, which a stage returned when invoked on the record of
   the state, has one event more: the error event of the stage *)
AppendsErrorEvent(out, a) ==
    LET trace == Get(out, "execution_trace", <<>>)
    IN  /\ Len(trace) = Len(Trace) + 1
        /\ trace[Len(trace)].agent = a
        /\ trace[Len(trace)].action = "error"

(* C37: after an invocation of the situation, guidance or resource stage,
   on any record that direct invocations lead to and whatever the
   collaborator does, the owned fields of the stage are either all the
   values of the parsed reply or all the fallback payload with confidence
   1.0, also when the try block fails after it has written owned fields
   from the reply *)
C37_AllOrNothing ==
    StageInvocable =>
        /\ \A r \in SituationShapes :
              \/ r.kind = "json" /\ SituationSucceeds(r)
              \/ /\ HoldsSituationFallback(situation_agent(state, r))
                 /\ AppendsErrorEvent(situation_agent(state, r), SITUATION)
        /\ \A r \in GuidanceShapes :
              \/ r.kind = "json" /\ GuidanceSucceeds(r)
              \/ /\ HoldsGuidanceFallback(guidance_agent(state, r))
                 /\ AppendsErrorEvent(guidance_agent(state, r), GUIDANCE)
        /\ \A r \in ResourceShapes :
              \/ r.kind = "json" /\ ResourceSucceeds(r)
              \/ /\ HoldsResourceFallback(resource_agent(state, r))
                 /\ AppendsErrorEvent(resource_agent(state, r), RESOURCE)

(* the guidance stage has failed after it had written the reply's values:
   the confidence of the reply was a string *)
C37_Witness ==
    /\ pc = "unit"
    /\ Len(calls) > 0
    /\ LastCall.agent = GUIDANCE
    /\ LastCall.kind = "json"
    /\ LastCall.confidence = StrNum
    /\ LastEvent.agent = GUIDANCE
    /\ LastEvent.action = "error"
    /\ HoldsGuidanceFallback(state)

---------------------------------------------------------------------------
(* What no stage touches                                                   *)

RoutingAndInputFields ==
    {"next_agent", "assessment_complete", "description", "location",
     "family_contacts", "thread_id"}

(* the step neither adds, removes nor changes field k *)
Keeps(k) ==
    IF k \in DOMAIN state
    THEN k \in DOMAIN state' /\ state'[k] = state[k]
    ELSE k \notin DOMAIN state'

(* C38: over an invocation of a stage, on its success path and on its
   fallback path, next_agent, assessment_complete, description, location,
   the contacts and the session id keep their values *)
C38_StagesKeepRoutingAndInputs ==
    [][\A a \in AllStages :
          Invokes(a) => \A k \in RoutingAndInputFields : Keeps(k)]_vars

(* the resource stage has ended in its fallback path on a record with a
   routing slot and contacts *)
C38_Witness ==
    /\ pc = "unit"
    /\ Len(Trace) > 0
    /\ LastEvent.agent = RESOURCE
    /\ LastEvent.action = "error"
    /\ "next_agent" \in DOMAIN state
    /\ "family_contacts" \in DOMAIN state
    /\ state["family_contacts"] = SomeContacts

---------------------------------------------------------------------------
(* Requests that name contacts                                             *)

(* bodies with and without a family_contacts entry: EmergencyRequest has
   no such field, so the handler never sees the entry *)
ContactRequests ==
    UnitRequests \cup
    {[description |-> "Kitchen fire, smoke everywhere", location |-> "12 Elm Street",
      thread_id |-> NoneStr, family_contacts |-> SomeContacts]}

NextContacts ==
    \/ StartOn(ContactRequests)
    \/ SupervisorStep
    \/ RouteStep
    \/ SituationOn(SituationRunReplies)
    \/ GuidanceOn(GuidanceRunReplies)
    \/ ResourceOn(ResourceRunReplies)
    \/ Respond

SpecContacts == Init /\ [][NextContacts]_vars

(* C39: in a pipeline run, whether or not the caller has named contacts,
   the communication stage is never invoked: the router never selects
   communication_agent, the id is never in the executed list, and the
   contact messages and the communication confidence are never written *)
C39_CommunicationNeverRuns ==
    /\ pc # COMMUNICATION
    /\ "next_agent" \in DOMAIN state => state["next_agent"] # COMMUNICATION
    /\ \A i \in EventsOf({SUPERVISOR}) : Trace[i].next_agent # COMMUNICATION
    /\ EventsOf({COMMUNICATION}) = {}
    /\ ~Executed(COMMUNICATION)
    /\ \A i \in 1..Len(calls) : calls[i].agent # COMMUNICATION
    /\ "family_messages" \notin DOMAIN state
    /\ "communication_confidence" \notin DOMAIN state

(* a run for a request that named contacts has finished after its three
   stages *)
C39_Witness ==
    /\ pc = "done"
    /\ "family_contacts" \in DOMAIN request
    /\ StageSequence = <<SITUATION, GUIDANCE, RESOURCE>>

====
